---- MODULE Spec2Model ----
(***************************************************************************)
(* A model of the session manager of tboard_bot (backend/managers/         *)
(* game_manager.py), its rock-paper-scissors engine (backend/games/rps.py) *)
(* and the abandoned-session sweep (backend/tasks/background_tasks.py).    *)
(*                                                                         *)
(* The service runs on one cooperative event loop: a coroutine runs        *)
(* without interruption until it awaits real I/O (a database call, a       *)
(* websocket send).  asyncio.Queue.get/put on an unbounded, non-empty      *)
(* queue do not suspend.  Each action below is one such uninterrupted      *)
(* segment of a handler; pc[t] records where task t is suspended.          *)
(*                                                                         *)
(* Tasks: one message loop per connected player (task id = player id) and  *)
(* the sweep task (id 0).  None is modelled as 0 for ids and "none" for    *)
(* strings.                                                                *)
(*                                                                         *)
(* game_manager.py line 322 lacks the comma between "status" and           *)
(* "expires_at" of the lobby mirror; the dict is modelled with both keys.  *)
(***************************************************************************)
EXTENDS Integers, Sequences, FiniteSets, TLC

\* ------------------------------------------------------------ bounds
\* number of add_to_queue calls explored
MaxRequests == 3
\* completed-round counter cap of a session (rounds_played)
MaxRounds == 4
\* clock cap, in ticks
MaxTime == 2

Users == {1, 2, 3}
SweepTask == 0
LobbySweepTask == 4
Tasks == Users \cup {SweepTask, LobbySweepTask}
\* inputs of join_queue: "ludo" has no registered engine
QueueGameTypes == {"rps", "ludo"}
Stakes == {1, 10}
\* the session followed by the move/settlement specification
GameIds == {1}
\* move inputs: "lizard" is not a valid move, "#7" stands for a non-string
MoveInputs == {"rock", "paper", "scissors", "lizard", "#7"}
NonStrings == {"#7"}
\* the player pairs a session is created for: two players, or one player
\* paired with their own second request
SessionPairs == {<<1, 2>>, <<1, 1>>}
\* the players whose websocket send may raise
Flaky == {1}

\* ------------------------------------------------------------ state
VARIABLES
    wait_queue,          \* GameManager.wait_queue: sequence of requests
    nextRid,             \* next request number (identity of a request)
    games,               \* ActiveGame objects by id (kept while referenced)
    active_games,        \* GameManager.active_games: ids registered
    session_reqs,        \* per session: the two requests it was made of
    create_failed,       \* whether some _create_game has failed so far
    game_rows,           \* table games
    user_rows,           \* table users: the statistics columns
    active_connections,  \* GameManager.active_connections: players
    sent,                \* events handed to a websocket in the last step
    pc,                  \* per task: where it is suspended
    loc,                 \* per task: its local variables
    now,                 \* clock, in minutes
    active_lobbies,      \* GameManager.active_lobbies: the mirror, by id
    lobby_rows,          \* table lobbies
    lobby_seq,           \* table lobbies: the last id given out
    ret,                 \* what the manager call that returned last returned
    balance_coins,       \* table users: the balance_coins column, in hundredths
    coin_transactions,   \* table coin_transactions, in the order of insertion
    daily_rewards,       \* table daily_rewards
    today,               \* date.today(), as a day number
    db,                  \* per task: its AsyncSession and the call's locals
    sockets,             \* the websockets of /ws/game, by connection number
    conn_ws,             \* GameManager.active_connections: the websocket of a player
    ws_sent,             \* events the endpoint sent on a websocket in the last step
    claim_result,        \* the dict claim_daily_reward returned last
    tg_users,            \* table users: id and username by telegram_id
    login_out            \* what the login that ended last answered

vars == <<wait_queue, nextRid, games, active_games, session_reqs,
          create_failed, game_rows, user_rows, active_connections, sent, pc,
          loc, now, active_lobbies, lobby_rows, lobby_seq, ret, balance_coins,
          coin_transactions, daily_rewards, today, db, claim_result,
          tg_users, login_out, sockets, conn_ws, ws_sent>>

lobbyVars == <<active_lobbies, lobby_rows, lobby_seq>>
coinVars == <<balance_coins, coin_transactions, daily_rewards, today, db,
              claim_result>>
authVars == <<tg_users, login_out>>
wsVars == <<sockets, conn_ws, ws_sent>>
edgeVars == <<authVars, wsVars>>
\* a session with nothing pending and no call under way
NoDb == [op |-> "none", user_id |-> 0, amount |-> 0, transaction_type |-> "none",
         today |-> 0, balance_before |-> 0, balance_after |-> 0,
         updated |-> FALSE, new |-> {}, streak_days |-> 0, coins_earned |-> 0,
         telegram_id |-> 0, username |-> "none", init_data |-> <<>>]
\* a session token that was not issued, and no answer yet
NoToken == [sub |-> 0, exp |-> 0, key |-> "none"]
NoLogin == [task |-> -1, op |-> "none", status |-> 0, access_token |-> NoToken,
            user_id |-> 0, init_data |-> <<>>]
\* the connections followed by the endpoint specification
Sockets == {1, 2}
\* a websocket nobody has opened yet
NoSocket == [state |-> "none", endpoint |-> "none", token |-> NoToken,
             user_id |-> 0, code |-> 0, dispatched |-> FALSE, erred |-> FALSE,
             after_error |-> FALSE]
NoResult == [task |-> -1, user_id |-> 0, success |-> FALSE, coins_earned |-> 0,
             streak_days |-> 0, message |-> "none"]
\* a return: the task, the call, the id and the input it was given, whether
\* it succeeded, its message
NoRet == [task |-> -1, op |-> "none", arg |-> 0, input |-> "none", ok |-> FALSE,
          msg |-> "none"]
Ret(t, op, arg, input, ok, msg) ==
    [task |-> t, op |-> op, arg |-> arg, input |-> input, ok |-> ok, msg |-> msg]

NoLoc == [p1 |-> 0, p2 |-> 0, temp |-> <<>>, game_id |-> 0, winner_id |-> 0,
          round_winner |-> "none", todo |-> {}, lobby_id |-> 0, password |-> "None",
          creator_id |-> 0, target_id |-> 0, dirty |-> FALSE,
          started |-> 0, marked |-> {}]

\* ------------------------------------------------------------ engine
GAME_ENGINES == {"rps", "chess", "checkers"}

VALID_MOVES == {"rock", "paper", "scissors"}
WINS_NEEDED == 3
Slots == {"player1", "player2"}
EmptyMoves == [k \in {} |-> "none"]

get_initial_state ==
    [status |-> "playing", moves |-> EmptyMoves,
     score |-> [player1 |-> 0, player2 |-> 0], rounds_played |-> 0]

\* a validate_move without the "already moved" check
validate_move_overwrite(move, player_key, game_state) ==
    move \notin NonStrings /\ move \in VALID_MOVES

validate_move(move, player_key, game_state) ==
    IF move \in NonStrings THEN FALSE
    ELSE IF move \notin VALID_MOVES THEN FALSE
    ELSE IF player_key \in DOMAIN game_state.moves THEN FALSE
    ELSE TRUE

apply_move(move, player_key, game_state) ==
    [game_state EXCEPT !.moves =
        [k \in DOMAIN game_state.moves \cup {player_key} |->
            IF k = player_key THEN move ELSE game_state.moves[k]]]

\* a check_round_end whose table lets scissors beat rock
check_round_end_wrong(game_state) ==
    LET moves == game_state.moves IN
    IF "player1" \notin DOMAIN moves \/ "player2" \notin DOMAIN moves
    THEN "none"
    ELSE IF moves["player1"] = moves["player2"] THEN "draw"
    ELSE IF <<moves["player1"], moves["player2"]>> \in
              {<<"scissors", "rock">>, <<"paper", "rock">>, <<"scissors", "paper">>}
         THEN "player1" ELSE "player2"

check_round_end(game_state) ==
    LET moves == game_state.moves IN
    IF "player1" \notin DOMAIN moves \/ "player2" \notin DOMAIN moves
    THEN "none"
    ELSE LET move1 == moves["player1"]
             move2 == moves["player2"] IN
         IF move1 = move2 THEN "draw"
         ELSE IF \/ (move1 = "rock" /\ move2 = "scissors")
                 \/ (move1 = "paper" /\ move2 = "rock")
                 \/ (move1 = "scissors" /\ move2 = "paper")
              THEN "player1"
              ELSE "player2"

\* an is_game_over that is one win early
is_game_over_early(game_state) ==
    \/ game_state.score["player1"] >= WINS_NEEDED - 1
    \/ game_state.score["player2"] >= WINS_NEEDED - 1

is_game_over(game_state) ==
    \/ game_state.score["player1"] >= WINS_NEEDED
    \/ game_state.score["player2"] >= WINS_NEEDED

get_winner(game_state) ==
    IF ~is_game_over(game_state) THEN "none"
    ELSE IF game_state.score["player1"] >= WINS_NEEDED THEN "player1"
    ELSE IF game_state.score["player2"] >= WINS_NEEDED THEN "player2"
    ELSE "none"

\* a reset that does not count the round
reset_round_NoCount(game_state) == [game_state EXCEPT !.moves = EmptyMoves]

reset_round(game_state) ==
    [game_state EXCEPT !.moves = EmptyMoves,
                       !.rounds_played = game_state.rounds_played + 1]

\* ------------------------------------------------------------ sending
\* a _send_to_user that drops the event
send_to_user_dropped(st, user_id, type, F) == st

\* a send whose failure leaves the player in the registry
send_to_user_kept(st, user_id, type, F) ==
    IF user_id \in st.conns
    THEN [conns |-> st.conns,
          log |-> Append(st.log, [to |-> user_id, type |-> type,
                                  raised |-> user_id \in F])]
    ELSE st

\* GameManager._send_to_user on st = [conns, log]: for a player who is not
\* registered nothing is sent; otherwise the event is handed to the player's
\* websocket (an entry of the log), and when that send raises (user_id \in F)
\* the player is removed from the registry.
send_to_user(st, user_id, type, F) ==
    IF user_id \in st.conns
    THEN [conns |-> IF user_id \in F THEN st.conns \ {user_id} ELSE st.conns,
          log |-> Append(st.log, [to |-> user_id, type |-> type,
                                  raised |-> user_id \in F])]
    ELSE st

SendStart == [conns |-> active_connections, log |-> <<>>]

\* the outcomes of the sends to these players: who raises
Failing(targets) == SUBSET (targets \cap Flaky)

\* ------------------------------------------------------------ matchmaking
PendingMatchRequest(rid, user_id, game_type, stake) ==
    [rid |-> rid, user_id |-> user_id, game_type |-> game_type, stake |-> stake]

\* a match predicate that forgets the stake
Compatible_TypeOnly(a, b) == a.game_type = b.game_type

\* the match predicate of _attempt_matchmaking (lines 79-80)
Compatible(a, b) == a.game_type = b.game_type /\ a.stake = b.stake

\* index in rest of the first request compatible with the anchor, 0 if none
FirstMatch(anchor, rest) ==
    LET hits == {i \in 1..Len(rest) : Compatible(anchor, rest[i])} IN
    IF hits = {} THEN 0 ELSE CHOOSE i \in hits : \A j \in hits : i <= j

ActiveGame(game_id, player1_id, player2_id, game_type, stake) ==
    [id |-> game_id, player1_id |-> player1_id, player2_id |-> player2_id,
     game_type |-> game_type, stake |-> stake, created_at |-> now,
     state |-> get_initial_state]

GameRow(player1_id, player2_id, game_type, stake) ==
    [player1_id |-> player1_id, player2_id |-> player2_id,
     game_type |-> game_type, stake |-> stake, winner_id |-> 0,
     result |-> "none", finished_at |-> -1, final_state |-> {},
     writes |-> 0]

\* a failure that puts back the first player only
Requeue_FirstOnly(q, p1, p2) == q \o <<p1>>

\* the except clause of _create_game (lines 143-146): both requests are put
\* at the end of the queue
Requeue(q, p1, p2) == q \o <<p1, p2>>

\* One pass of the while loop of _attempt_matchmaking on queue q, run by
\* task t, up to the point where it returns or _create_game suspends.
Matchmaking(t, q) ==
    IF Len(q) < 2
    THEN /\ wait_queue' = q
         /\ pc' = [pc EXCEPT ![t] = "idle"]
         /\ loc' = [loc EXCEPT ![t] = NoLoc]
         /\ UNCHANGED create_failed
    ELSE LET anchor == Head(q)
             rest == Tail(q)
             i == FirstMatch(anchor, rest) IN
         IF i = 0
         THEN \* no hit: skipped requests go back, then the anchor; break
              /\ wait_queue' = rest \o <<anchor>>
              /\ pc' = [pc EXCEPT ![t] = "idle"]
              /\ loc' = [loc EXCEPT ![t] = NoLoc]
              /\ UNCHANGED create_failed
         ELSE LET held == [NoLoc EXCEPT !.p1 = anchor, !.p2 = rest[i],
                                        !.temp = SubSeq(rest, 1, i - 1)]
                  left == SubSeq(rest, i + 1, Len(rest)) IN
              IF anchor.game_type \notin GAME_ENGINES
              THEN \* ValueError before any I/O: both are re-enqueued
                   /\ wait_queue' = Requeue(left, anchor, rest[i])
                   /\ create_failed' = TRUE
                   /\ pc' = [pc EXCEPT ![t] = "after_create"]
                   /\ loc' = [loc EXCEPT ![t] = held]
              ELSE /\ wait_queue' = left
                   /\ pc' = [pc EXCEPT ![t] = "create_game"]
                   /\ loc' = [loc EXCEPT ![t] = held]
                   /\ UNCHANGED create_failed

\* add_to_queue: put, then _attempt_matchmaking
AddToQueue(t) ==
    /\ pc[t] = "idle"
    /\ t \in active_connections
    /\ nextRid <= MaxRequests
    /\ \E g \in QueueGameTypes, s \in Stakes :
          Matchmaking(t, Append(wait_queue, PendingMatchRequest(nextRid, t, g, s)))
    /\ nextRid' = nextRid + 1
    /\ sent' = <<>>
    /\ ret' = NoRet /\ UNCHANGED lobbyVars
    /\ UNCHANGED <<coinVars, edgeVars, games, active_games, session_reqs, game_rows, user_rows,
                   active_connections, now>>

NextGameId == Cardinality(DOMAIN game_rows) + 1

\* _create_game from db.commit() on: the row is inserted, the ActiveGame
\* registered and game_found sent to both; or the commit raises and both
\* players are re-enqueued.
CreateGameCommit(t) ==
    /\ pc[t] = "create_game"
    /\ LET p1 == loc[t].p1
           p2 == loc[t].p2
           gid == NextGameId IN
       \/ \E F \in Failing({p1.user_id, p2.user_id}) :
            LET st1 == send_to_user(SendStart, p1.user_id, "game_found", F)
                st2 == send_to_user(st1, p2.user_id, "game_found", F) IN
            /\ game_rows' = (gid :> GameRow(p1.user_id, p2.user_id, p1.game_type, p1.stake)) @@ game_rows
            /\ games' = (gid :> ActiveGame(gid, p1.user_id, p2.user_id, p1.game_type, p1.stake)) @@ games
            /\ active_games' = active_games \cup {gid}
            /\ session_reqs' = (gid :> <<p1, p2>>) @@ session_reqs
            /\ active_connections' = st2.conns
            /\ sent' = st2.log
            /\ UNCHANGED <<wait_queue, create_failed>>
       \/ /\ wait_queue' = Requeue(wait_queue, p1, p2)
          /\ create_failed' = TRUE
          /\ sent' = <<>>
          /\ UNCHANGED <<games, active_games, session_reqs, game_rows, active_connections>>
    /\ pc' = [pc EXCEPT ![t] = "after_create"]
    /\ ret' = NoRet /\ UNCHANGED lobbyVars
    /\ UNCHANGED <<coinVars, edgeVars, nextRid, user_rows, loc, now>>

\* back in _attempt_matchmaking after _create_game returned: the skipped
\* requests are put back and the while loop goes on (matched is True)
AfterCreate(t) ==
    /\ pc[t] = "after_create"
    /\ Matchmaking(t, wait_queue \o loc[t].temp)
    /\ sent' = <<>>
    /\ ret' = NoRet /\ UNCHANGED lobbyVars
    /\ UNCHANGED <<coinVars, edgeVars, nextRid, games, active_games, session_reqs, game_rows,
                   user_rows, active_connections, now>>

EmptyFn == [k \in {} |-> 0]

InitRest ==
    /\ wait_queue = <<>>
    /\ nextRid = 1
    /\ games = EmptyFn
    /\ active_games = {}
    /\ session_reqs = EmptyFn
    /\ create_failed = FALSE
    /\ game_rows = EmptyFn
    /\ user_rows = [u \in Users |-> [total_games_played |-> 0, total_wins |-> 0,
                                      total_losses |-> 0, total_won_ton |-> 0]]
    /\ sent = <<>>
    /\ pc = [t \in Tasks |-> "idle"]
    /\ loc = [t \in Tasks |-> NoLoc]
    /\ now = 0
    /\ active_lobbies = EmptyFn
    /\ lobby_rows = EmptyFn
    /\ lobby_seq = 0
    /\ ret = NoRet
    /\ balance_coins = [u \in Users |-> 0]
    /\ coin_transactions = <<>>
    /\ daily_rewards = {}
    /\ today = 0
    /\ db = [t \in Tasks |-> NoDb]
    /\ claim_result = NoResult
    /\ tg_users = [tid \in {100 + u : u \in Users} |->
                        [id |-> tid - 100, username |-> "old",
                         last_active_at |-> 0 - 1,
                         referral_link |-> <<"ref_", tid>>]]
    /\ login_out = NoLogin
    /\ sockets = [s \in Sockets |-> NoSocket]
    /\ conn_ws = [u \in Users |-> 0]
    /\ ws_sent = <<>>

\* the players are connected (their websockets are not followed)
InitQueue == InitRest /\ active_connections = Users

NextQueue ==
    \E t \in Users : AddToQueue(t) \/ CreateGameCommit(t) \/ AfterCreate(t)

SpecQueue == InitQueue /\ [][NextQueue]_vars

\* the leave_queue branch of the websocket loop (main.py lines 258-262):
\* queue_left is sent on the player's websocket; no manager method is called
LeaveQueue(t) ==
    /\ pc[t] = "idle"
    /\ t \in active_connections
    /\ sent' = <<[to |-> t, type |-> "queue_left", raised |-> FALSE]>>
    /\ ret' = Ret(t, "leave_queue", 0, "none", TRUE, "Left the queue")
    /\ UNCHANGED lobbyVars
    /\ UNCHANGED <<coinVars, edgeVars, wait_queue, nextRid, games, active_games,
                   session_reqs, create_failed, game_rows, user_rows,
                   active_connections, pc, loc, now>>

\* join_queue and leave_queue messages
NextLeave ==
    \/ NextQueue
    \/ \E t \in Users : LeaveQueue(t)

SpecLeave == InitQueue /\ [][NextLeave]_vars

\* the same with the event loop's scheduling: a call that can go on does
SpecPairing == InitQueue /\ [][NextQueue]_vars /\ WF_vars(NextQueue)

\* ---- claims about pairing
AllIdle == \A t \in Tasks : pc[t] = "idle"

\* the requests a suspended pairing run holds outside the queue
Held(t) ==
    IF pc[t] = "create_game" THEN <<loc[t].p1, loc[t].p2>> \o loc[t].temp
    ELSE IF pc[t] = "after_create" THEN loc[t].temp
    ELSE <<>>

Occurrences(seq, rid) == Cardinality({i \in 1..Len(seq) : seq[i].rid = rid})

InQueue(rid) == Occurrences(wait_queue, rid)
InHold(rid) == Cardinality({t \in Users : Occurrences(Held(t), rid) > 0})
InSessions(rid) ==
    Cardinality({gk \in (DOMAIN session_reqs) \X {1, 2} :
                    session_reqs[gk[1]][gk[2]].rid = rid})

\* C1: every session made by pairing is made of two distinct requests with
\* the same game type and the same stake, and is a session of that game type
\* and stake for their two players; every request made so far is in exactly
\* one place: once in the wait queue, held by a pairing run that is still
\* under way, or in exactly one session (so a matched request is not queued,
\* and an unmatched one is not lost); when no call is under way every
\* request is either queued or in its one session.
C1_PairsIdenticalRequests ==
    /\ \A g \in DOMAIN session_reqs :
          LET a == session_reqs[g][1]
              b == session_reqs[g][2] IN
          /\ a.game_type = b.game_type
          /\ a.stake = b.stake
          /\ a.rid # b.rid
          /\ game_rows[g].game_type = a.game_type
          /\ game_rows[g].stake = a.stake
          /\ game_rows[g].player1_id = a.user_id
          /\ game_rows[g].player2_id = b.user_id
    /\ \A rid \in 1..(nextRid - 1) :
          /\ InQueue(rid) + InHold(rid) + InSessions(rid) = 1
          /\ AllIdle => InHold(rid) = 0

\* C1 witness: a session exists, no call is under way, and a request made
\* before the session's two, with another stake, is still queued
C1_Witness ==
    /\ AllIdle
    /\ \E g \in DOMAIN session_reqs : \E i \in 1..Len(wait_queue) :
          /\ wait_queue[i].stake # session_reqs[g][1].stake
          /\ wait_queue[i].rid < session_reqs[g][1].rid

\* C2: once the add_to_queue calls have returned and no session creation has
\* failed, the wait queue holds no two requests with the same game type and
\* stake
C2_NoCompatiblePairLeft ==
    (AllIdle /\ ~create_failed) =>
        \A i, j \in 1..Len(wait_queue) :
            i # j => ~(/\ wait_queue[i].game_type = wait_queue[j].game_type
                       /\ wait_queue[i].stake = wait_queue[j].stake)

\* ------------------------------------------------------------ sessions
\* ids a make_move message may name: 2 is never a session
MoveGameIds == GameIds \cup {2}

\* timedelta(minutes=30) of cleanup_abandoned_games
abandoned_timeout == 30

\* _create_game called with these arguments (by pairing or by a lobby's
\* promotion), its commit succeeding: row, ActiveGame, game_found to both
CreateGameAmong(ids, p1, p2, stake) ==
    /\ NextGameId \in ids
    /\ \E F \in Failing({p1, p2}) :
         LET gid == NextGameId
             st1 == send_to_user(SendStart, p1, "game_found", F)
             st2 == send_to_user(st1, p2, "game_found", F) IN
         /\ game_rows' = (gid :> GameRow(p1, p2, "rps", stake)) @@ game_rows
         /\ games' = (gid :> ActiveGame(gid, p1, p2, "rps", stake)) @@ games
         /\ active_games' = active_games \cup {gid}
         /\ active_connections' = st2.conns
         /\ sent' = st2.log
    /\ ret' = NoRet /\ UNCHANGED lobbyVars
    /\ UNCHANGED <<coinVars, edgeVars, wait_queue, nextRid, session_reqs, create_failed, user_rows,
                   pc, loc, now>>

CreateGame(p1, p2, stake) == CreateGameAmong(GameIds, p1, p2, stake)

\* the score update of handle_player_move (lines 182-185)
UpdateScore(game_state, round_winner) ==
    IF round_winner # "draw"
    THEN [game_state EXCEPT !.score[round_winner] = game_state.score[round_winner] + 1]
    ELSE game_state

\* the slot of a player in a session (lines 156-162)
PlayerKey(game, user_id) ==
    IF user_id = game.player1_id THEN "player1"
    ELSE IF user_id = game.player2_id THEN "player2"
    ELSE "none"

\* whether handle_player_move applies the move (lines 149-171)
Accepted(t, game_id, move) ==
    /\ game_id \in active_games
    /\ PlayerKey(games[game_id], t) # "none"
    /\ validate_move(move, PlayerKey(games[game_id], t), games[game_id].state)

\* handle_player_move up to its first suspension (lines 148-203)
MoveBegin(t, game_id, move) ==
    /\ pc[t] = "idle"
    /\ t \in active_connections
    /\ IF game_id \notin active_games
       THEN \* unknown session: logged, nothing else
            /\ sent' = <<>>
            /\ UNCHANGED <<games, active_connections, pc, loc>>
       ELSE LET game == games[game_id]
                player_key == PlayerKey(game, t) IN
            IF player_key = "none"
            THEN /\ sent' = <<>>
                 /\ UNCHANGED <<games, active_connections, pc, loc>>
            ELSE IF ~validate_move(move, player_key, game.state)
            THEN \E F \in Failing({t}) :
                   LET st == send_to_user(SendStart, t, "error", F) IN
                   /\ sent' = st.log
                   /\ active_connections' = st.conns
                   /\ UNCHANGED <<games, pc, loc>>
            ELSE /\ game.state.rounds_played < MaxRounds
                 /\ LET applied == apply_move(move, player_key, game.state)
                        round_winner == check_round_end(applied) IN
                    IF round_winner = "none"
                    THEN /\ games' = [games EXCEPT ![game_id].state = applied]
                         /\ sent' = <<>>
                         /\ UNCHANGED <<active_connections, pc, loc>>
                    ELSE \E F \in Failing({game.player1_id, game.player2_id}) :
                           LET st1 == send_to_user(SendStart, game.player1_id, "round_result", F)
                               st2 == send_to_user(st1, game.player2_id, "round_result", F) IN
                           /\ games' = [games EXCEPT ![game_id].state =
                                           UpdateScore(applied, round_winner)]
                           /\ sent' = st2.log
                           /\ active_connections' = st2.conns
                           /\ pc' = [pc EXCEPT ![t] = "round_sent"]
                           /\ loc' = [loc EXCEPT ![t] =
                                  [NoLoc EXCEPT !.game_id = game_id,
                                                !.round_winner = round_winner]]
    /\ ret' = Ret(t, "make_move", game_id, move, Accepted(t, game_id, move), "none")
    /\ UNCHANGED lobbyVars
    /\ UNCHANGED <<coinVars, edgeVars, wait_queue, nextRid, active_games, session_reqs, create_failed,
                   game_rows, user_rows, now>>

\* handle_player_move after the round_result sends (lines 205-217): either
\* _end_game is entered (and suspends at its first database call, or returns
\* at once when the session is no longer registered) or the round is reset
MoveFinish(t) ==
    /\ pc[t] = "round_sent"
    /\ LET game_id == loc[t].game_id
           game == games[game_id] IN
       IF is_game_over(game.state)
       THEN LET final_winner == get_winner(game.state)
                winner_id == IF final_winner = "player1" THEN game.player1_id
                             ELSE IF final_winner = "player2" THEN game.player2_id
                             ELSE 0 IN
            /\ IF game_id \notin active_games
               THEN /\ pc' = [pc EXCEPT ![t] = "idle"]
                    /\ loc' = [loc EXCEPT ![t] = NoLoc]
               ELSE /\ pc' = [pc EXCEPT ![t] = "end_game"]
                    /\ loc' = [loc EXCEPT ![t] =
                           [NoLoc EXCEPT !.game_id = game_id, !.winner_id = winner_id]]
            /\ UNCHANGED games
       ELSE /\ games' = [games EXCEPT ![game_id].state = reset_round(game.state)]
            /\ pc' = [pc EXCEPT ![t] = "idle"]
            /\ loc' = [loc EXCEPT ![t] = NoLoc]
    /\ sent' = <<>>
    /\ ret' = NoRet /\ UNCHANGED lobbyVars
    /\ UNCHANGED <<coinVars, edgeVars, wait_queue, nextRid, active_games, session_reqs, create_failed,
                   game_rows, user_rows, active_connections, now>>

\* amounts of money are in hundredths
total_pot(stake) == stake * 2 * 100
rake_amount(pot) == (pot * 5) \div 100
\* a payout that forgets the rake
winner_payout_NoRake(stake, winner_id) ==
    IF winner_id # 0 THEN total_pot(stake) ELSE total_pot(stake) \div 2

winner_payout(stake, winner_id) ==
    IF winner_id # 0 THEN total_pot(stake) - rake_amount(total_pot(stake))
    ELSE total_pot(stake) \div 2

\* a result that takes every settlement for a win
GameResult_NoDraw(game, winner_id) ==
    IF winner_id = game.player1_id THEN "player1_win" ELSE "player2_win"

GameResult(game, winner_id) ==
    IF winner_id = 0 THEN "draw"
    ELSE IF winner_id = game.player1_id THEN "player1_win" ELSE "player2_win"

UpdateUser(rows, user_id, played, wins, losses, won) ==
    [rows EXCEPT ![user_id] =
        [total_games_played |-> @.total_games_played + played,
         total_wins |-> @.total_wins + wins,
         total_losses |-> @.total_losses + losses,
         total_won_ton |-> @.total_won_ton + won]]

\* a settlement that counts a draw as a loss of both players
SettleUsers_DrawAsLoss(rows, game, winner_id) ==
    IF winner_id # 0
    THEN LET loser_id == IF winner_id = game.player1_id THEN game.player2_id
                         ELSE game.player1_id IN
         UpdateUser(UpdateUser(rows, winner_id, 1, 1, 0,
                               winner_payout(game.stake, winner_id)),
                    loser_id, 1, 0, 1, 0)
    ELSE UpdateUser(UpdateUser(rows, game.player1_id, 1, 0, 1, 0),
                    game.player2_id, 1, 0, 1, 0)

\* the statistics updates of _end_game (lines 241-258)
SettleUsers(rows, game, winner_id) ==
    IF winner_id # 0
    THEN LET loser_id == IF winner_id = game.player1_id THEN game.player2_id
                         ELSE game.player1_id IN
         UpdateUser(UpdateUser(rows, winner_id, 1, 1, 0,
                               winner_payout(game.stake, winner_id)),
                    loser_id, 1, 0, 1, 0)
    ELSE UpdateUser(UpdateUser(rows, game.player1_id, 1, 0, 0, 0),
                    game.player2_id, 1, 0, 0, 0)

\* where a task goes on when its _end_game call has returned: a handler is
\* done; the sweep enters _end_game for its next abandoned session that is
\* still registered (registry as it is after this step)
AfterEndGame(t, registry) ==
    LET rest == (loc[t].todo \ {loc[t].game_id}) \cap registry IN
    IF t # SweepTask \/ rest = {}
    THEN /\ pc' = [pc EXCEPT ![t] = "idle"]
         /\ loc' = [loc EXCEPT ![t] = NoLoc]
    ELSE LET next == CHOOSE g \in rest : \A h \in rest : g <= h IN
         /\ pc' = [pc EXCEPT ![t] = "end_game"]
         /\ loc' = [loc EXCEPT ![t] = [NoLoc EXCEPT !.game_id = next, !.todo = rest]]

\* _end_game, the transaction (lines 226-260): it commits, or an exception
\* is logged and nothing is persisted
EndGameCommit(t) ==
    /\ pc[t] = "end_game"
    /\ LET game_id == loc[t].game_id
           winner_id == loc[t].winner_id
           game == games[game_id] IN
       \/ /\ game_rows' = [game_rows EXCEPT ![game_id] =
                 [@ EXCEPT !.winner_id = winner_id,
                           !.result = GameResult(game, winner_id),
                           !.finished_at = now,
                           !.final_state = {game.state},
                           !.writes = @ + 1]]
          /\ user_rows' = SettleUsers(user_rows, game, winner_id)
          /\ pc' = [pc EXCEPT ![t] = "end_notify"]
          /\ UNCHANGED loc
       \/ /\ AfterEndGame(t, active_games)
          /\ UNCHANGED <<game_rows, user_rows>>
    /\ sent' = <<>>
    /\ ret' = NoRet /\ UNCHANGED lobbyVars
    /\ UNCHANGED <<coinVars, edgeVars, wait_queue, nextRid, games, active_games, session_reqs,
                   create_failed, active_connections, now>>

\* _end_game after the commit (lines 262-275): game_result to both, then the
\* ActiveGame is removed (a KeyError, when it is already gone, is logged)
EndGameNotify(t) ==
    /\ pc[t] = "end_notify"
    /\ LET game_id == loc[t].game_id
           game == games[game_id] IN
       \E F \in Failing({game.player1_id, game.player2_id}) :
         LET st1 == send_to_user(SendStart, game.player1_id, "game_result", F)
             st2 == send_to_user(st1, game.player2_id, "game_result", F) IN
         /\ sent' = st2.log
         /\ active_connections' = st2.conns
         /\ active_games' = active_games \ {game_id}
         /\ AfterEndGame(t, active_games \ {game_id})
    /\ ret' = NoRet /\ UNCHANGED lobbyVars
    /\ UNCHANGED <<coinVars, edgeVars, wait_queue, nextRid, games, session_reqs, create_failed,
                   game_rows, user_rows, now>>

\* cleanup_abandoned_games, one wake-up (lines 57-70): the sessions older
\* than the timeout are collected and _end_game is entered for the first
SweepGames ==
    /\ pc[SweepTask] = "idle"
    /\ LET abandoned == {g \in active_games : now - games[g].created_at > abandoned_timeout} IN
       /\ abandoned # {}
       /\ LET first == CHOOSE g \in abandoned : \A h \in abandoned : g <= h IN
          /\ pc' = [pc EXCEPT ![SweepTask] = "end_game"]
          /\ loc' = [loc EXCEPT ![SweepTask] =
                 [NoLoc EXCEPT !.game_id = first, !.todo = abandoned]]
    /\ sent' = <<>>
    /\ ret' = NoRet /\ UNCHANGED lobbyVars
    /\ UNCHANGED <<coinVars, edgeVars, wait_queue, nextRid, games, active_games, session_reqs,
                   create_failed, game_rows, user_rows, active_connections, now>>

\* time passes (only differences of times are read, so the clock stands
\* until the first session, lobby or login exists)
Tick(minutes) ==
    /\ now < MaxTime * minutes
    /\ DOMAIN game_rows # {} \/ lobby_seq > 0 \/ login_out.op # "none"
    /\ now' = now + minutes
    /\ sent' = <<>>
    /\ ret' = NoRet /\ UNCHANGED lobbyVars
    /\ UNCHANGED <<coinVars, edgeVars, wait_queue, nextRid, games, active_games, session_reqs,
                   create_failed, game_rows, user_rows, active_connections, pc, loc>>

\* connect_user: the player's connection is registered
Connect(u) ==
    /\ u \notin active_connections
    /\ pc[u] = "idle"
    /\ active_connections' = active_connections \cup {u}
    /\ sent' = <<>>
    /\ ret' = NoRet /\ UNCHANGED lobbyVars
    /\ UNCHANGED <<coinVars, edgeVars, wait_queue, nextRid, games, active_games, session_reqs,
                   create_failed, game_rows, user_rows, pc, loc, now>>

InitGame == InitQueue

\* one session: its moves and its settlement by the game-ending move
NextGame ==
    \/ \E pp \in SessionPairs, s \in Stakes : CreateGame(pp[1], pp[2], s)
    \/ \E t \in Users, g \in MoveGameIds, m \in MoveInputs : MoveBegin(t, g, m)
    \/ \E t \in Users : MoveFinish(t)
    \/ \E t \in Users : EndGameCommit(t)
    \/ \E t \in Users : EndGameNotify(t)
    \/ \E u \in Users : Connect(u)

SpecGame == InitGame /\ [][NextGame]_vars

\* one session, the clock and the abandoned-session sweep beside the moves
SweepMoveInputs == {"rock", "paper"}

NextSweep ==
    \/ CreateGame(1, 2, 1)
    \/ \E t \in Users, g \in GameIds, m \in SweepMoveInputs : MoveBegin(t, g, m)
    \/ \E t \in Users : MoveFinish(t)
    \/ \E t \in Tasks : EndGameCommit(t)
    \/ \E t \in Tasks : EndGameNotify(t)
    \/ SweepGames
    \/ Tick(abandoned_timeout)

SpecSweep == InitGame /\ [][NextSweep]_vars

\* two sessions of players 1 and 2, made at different times, a first move
\* in each, the clock and the abandoned-session sweep
AbandonedGameIds == {1, 2}

NextAbandoned ==
    \/ CreateGameAmong(AbandonedGameIds, 1, 2, 1)
    \/ \E g \in AbandonedGameIds : MoveBegin(1, g, "rock")
    \/ EndGameCommit(SweepTask)
    \/ EndGameNotify(SweepTask)
    \/ SweepGames
    \/ Tick(abandoned_timeout)
    \/ \E u \in {1, 2} : Connect(u)

SpecAbandoned == InitGame /\ [][NextAbandoned]_vars

\* ------------------------------------------------------------ lobbies
\* passwords a caller may pass: "None" stands for Python's None
CreatePasswords == {"None", "", "a"}
JoinPasswords == {"None", "", "a", "b"}
\* the lobby followed by the lobby specification
LobbyRowIds == {1}
\* ids a lobby call may name: 9 is never a lobby
LobbyIds == LobbyRowIds \cup {9}

\* Python's truth value of an optional string
Truthy(password) == password \notin {"None", ""}

\* bcrypt, salt left out: hashpw and checkpw; <<>> is the absent hash
hashpw(password) == <<"bcrypt", password>>
\* a checkpw that lets every password pass
checkpw_any(password, password_hash) == TRUE
checkpw(password, password_hash) == hashpw(password) = password_hash

\* timedelta(minutes=10) of create_lobby
lobby_lifetime == 10

sessionVars == <<wait_queue, nextRid, games, active_games, session_reqs,
                 create_failed, game_rows, user_rows, now>>

\* a call that returns: the task is idle again
Return(t, result) ==
    /\ pc' = [pc EXCEPT ![t] = "idle"]
    /\ loc' = [loc EXCEPT ![t] = NoLoc]
    /\ ret' = result

\* a call that suspends at its next database call
Suspend(t, at, lobby_id, password) ==
    /\ pc' = [pc EXCEPT ![t] = at]
    /\ loc' = [loc EXCEPT ![t] = [NoLoc EXCEPT !.lobby_id = lobby_id,
                                               !.password = password]]
    /\ ret' = NoRet

\* create_lobby up to the commit of the new row (lines 292-309); a commit
\* that raises leaves nothing behind
CreateLobbyCommit(t, password) ==
    /\ pc[t] = "idle"
    /\ t \in active_connections
    /\ lobby_seq + 1 \in LobbyRowIds
    /\ \/ /\ lobby_seq' = lobby_seq + 1
          /\ lobby_rows' = (lobby_seq + 1 :>
                [game_type |-> "rps", stake |-> 1,
                 password_hash |-> IF Truthy(password) THEN hashpw(password) ELSE <<>>,
                 creator_id |-> t, joiner_id |-> 0, status |-> "waiting",
                 expires_at |-> now + lobby_lifetime]) @@ lobby_rows
          /\ Suspend(t, "create_lobby_refresh", lobby_seq + 1, password)
       \/ /\ Return(t, Ret(t, "create_lobby", 0, password, FALSE, "raised"))
          /\ UNCHANGED <<lobby_rows, lobby_seq>>
    /\ sent' = <<>>
    /\ UNCHANGED <<coinVars, edgeVars, active_lobbies, active_connections, sessionVars>>

\* create_lobby after the commit (lines 310-326): the mirror entry
CreateLobbyRegister(t) ==
    /\ pc[t] = "create_lobby_refresh"
    /\ active_lobbies' = (loc[t].lobby_id :>
            [id |-> loc[t].lobby_id, game_type |-> "rps", stake |-> 1,
             has_password |-> loc[t].password # "None",
             creator_id |-> t, joiner_id |-> 0,
             creator_ready |-> FALSE, joiner_ready |-> FALSE,
             status |-> "waiting",
             expires_at |-> lobby_rows[loc[t].lobby_id].expires_at]) @@ active_lobbies
    /\ Return(t, Ret(t, "create_lobby", loc[t].lobby_id, loc[t].password, TRUE, "none"))
    /\ sent' = <<>>
    /\ UNCHANGED <<coinVars, edgeVars, lobby_rows, lobby_seq, active_connections, sessionVars>>

\* join_lobby up to db.get (lines 328-339): the checks on the mirror
JoinBegin(t, lobby_id, password) ==
    /\ pc[t] = "idle"
    /\ t \in active_connections
    /\ IF lobby_id \notin DOMAIN active_lobbies
       THEN Return(t, Ret(t, "join_lobby", lobby_id, password, FALSE, "Lobby not found"))
       ELSE IF active_lobbies[lobby_id].joiner_id # 0
       THEN Return(t, Ret(t, "join_lobby", lobby_id, password, FALSE, "Lobby is full"))
       ELSE Suspend(t, "join_get", lobby_id, password)
    /\ sent' = <<>>
    /\ UNCHANGED <<coinVars, edgeVars, lobbyVars, active_connections, sessionVars>>

\* join_lobby from the row's arrival to the commit (lines 340-353): the
\* password check against the row
JoinGet(t) ==
    /\ pc[t] = "join_get"
    /\ LET lobby_id == loc[t].lobby_id
           password == loc[t].password
           Fail(msg) == Return(t, Ret(t, "join_lobby", lobby_id, password, FALSE, msg)) IN
       IF lobby_id \notin DOMAIN lobby_rows
       THEN Fail("Lobby not found in DB")
       ELSE LET db_lobby == lobby_rows[lobby_id] IN
            IF db_lobby.password_hash # <<>> /\ ~Truthy(password)
            THEN Fail("Password required")
            ELSE IF db_lobby.password_hash # <<>> /\ ~checkpw(password, db_lobby.password_hash)
            THEN Fail("Invalid password")
            ELSE Suspend(t, "join_commit", lobby_id, password)
    /\ sent' = <<>>
    /\ UNCHANGED <<coinVars, edgeVars, lobbyVars, active_connections, sessionVars>>

\* join_lobby from the commit on (lines 353-358): the row's UPDATE, then the
\* write to the mirror entry the call holds (an entry that has left the
\* mirror meanwhile is written to no effect); the commit raises when the
\* row is gone, and may raise otherwise
JoinCommit(t) ==
    /\ pc[t] = "join_commit"
    /\ LET lobby_id == loc[t].lobby_id
           password == loc[t].password IN
       \/ /\ lobby_id \in DOMAIN lobby_rows
          /\ lobby_rows' = [lobby_rows EXCEPT ![lobby_id].joiner_id = t,
                                              ![lobby_id].status = "full"]
          /\ active_lobbies' =
                IF lobby_id \in DOMAIN active_lobbies
                THEN [active_lobbies EXCEPT ![lobby_id].joiner_id = t,
                                            ![lobby_id].status = "full"]
                ELSE active_lobbies
          /\ Return(t, Ret(t, "join_lobby", lobby_id, password, TRUE, "Joined"))
       \/ /\ Return(t, Ret(t, "join_lobby", lobby_id, password, FALSE, "raised"))
          /\ UNCHANGED <<lobby_rows, active_lobbies>>
    /\ sent' = <<>>
    /\ UNCHANGED <<coinVars, edgeVars, lobby_seq, active_connections, sessionVars>>

Without(f, k) == [x \in DOMAIN f \ {k} |-> f[x]]

\* leave_lobby up to db.get (lines 360-375, 377-385): the creator's entry
\* leaves the mirror, a joiner's slot is freed in the mirror
LeaveBegin(t, lobby_id) ==
    /\ pc[t] = "idle"
    /\ t \in active_connections
    /\ IF lobby_id \notin DOMAIN active_lobbies
       THEN /\ Return(t, Ret(t, "leave_lobby", lobby_id, "none", FALSE, "none"))
            /\ UNCHANGED active_lobbies
       ELSE IF active_lobbies[lobby_id].creator_id = t
       THEN /\ active_lobbies' = Without(active_lobbies, lobby_id)
            /\ Suspend(t, "leave_creator_get", lobby_id, "None")
       ELSE IF active_lobbies[lobby_id].joiner_id = t
       THEN /\ active_lobbies' = [active_lobbies EXCEPT ![lobby_id].joiner_id = 0,
                                                        ![lobby_id].joiner_ready = FALSE,
                                                        ![lobby_id].status = "waiting"]
            /\ pc' = [pc EXCEPT ![t] = "leave_joiner_get"]
            /\ loc' = [loc EXCEPT ![t] =
                   [NoLoc EXCEPT !.lobby_id = lobby_id,
                                 !.creator_id = active_lobbies[lobby_id].creator_id]]
            /\ ret' = NoRet
       ELSE /\ Return(t, Ret(t, "leave_lobby", lobby_id, "none", FALSE, "none"))
            /\ UNCHANGED active_lobbies
    /\ sent' = <<>>
    /\ UNCHANGED <<coinVars, edgeVars, lobby_rows, lobby_seq, active_connections, sessionVars>>

\* leave_lobby of the creator, the row's arrival (lines 369-370)
LeaveCreatorGet(t) ==
    /\ pc[t] = "leave_creator_get"
    /\ IF loc[t].lobby_id \in DOMAIN lobby_rows
       THEN /\ pc' = [pc EXCEPT ![t] = "leave_creator_commit"]
            /\ UNCHANGED loc
            /\ ret' = NoRet
       ELSE Return(t, Ret(t, "leave_lobby", loc[t].lobby_id, "none", TRUE, "none"))
    /\ sent' = <<>>
    /\ UNCHANGED <<coinVars, edgeVars, lobbyVars, active_connections, sessionVars>>

\* leave_lobby of the creator, the deletion's commit (lines 371-374)
LeaveCreatorCommit(t) ==
    /\ pc[t] = "leave_creator_commit"
    /\ \/ /\ lobby_rows' = Without(lobby_rows, loc[t].lobby_id)
          /\ Return(t, Ret(t, "leave_lobby", loc[t].lobby_id, "none", TRUE, "none"))
       \/ /\ Return(t, Ret(t, "leave_lobby", loc[t].lobby_id, "none", FALSE, "raised"))
          /\ UNCHANGED lobby_rows
    /\ sent' = <<>>
    /\ UNCHANGED <<coinVars, edgeVars, active_lobbies, lobby_seq, active_connections, sessionVars>>

\* leave_lobby of a joiner, the row's arrival (lines 383-385)
LeaveJoinerGet(t) ==
    /\ pc[t] = "leave_joiner_get"
    /\ pc' = [pc EXCEPT ![t] = IF loc[t].lobby_id \in DOMAIN lobby_rows
                               THEN "leave_joiner_commit" ELSE "leave_notify"]
    /\ ret' = NoRet
    /\ sent' = <<>>
    /\ UNCHANGED <<coinVars, edgeVars, loc, lobbyVars, active_connections, sessionVars>>

\* leave_lobby of a joiner, the commit (lines 386-388); it raises when the
\* row is gone, and may raise otherwise
LeaveJoinerCommit(t) ==
    /\ pc[t] = "leave_joiner_commit"
    /\ \/ /\ loc[t].lobby_id \in DOMAIN lobby_rows
          /\ lobby_rows' = [lobby_rows EXCEPT ![loc[t].lobby_id].joiner_id = 0,
                                              ![loc[t].lobby_id].status = "waiting"]
          /\ pc' = [pc EXCEPT ![t] = "leave_notify"]
          /\ UNCHANGED loc
          /\ ret' = NoRet
       \/ /\ Return(t, Ret(t, "leave_lobby", loc[t].lobby_id, "none", FALSE, "raised"))
          /\ UNCHANGED lobby_rows
    /\ sent' = <<>>
    /\ UNCHANGED <<coinVars, edgeVars, active_lobbies, lobby_seq, active_connections, sessionVars>>

\* leave_lobby of a joiner, the notice to the creator (lines 390-396)
LeaveNotify(t) ==
    /\ pc[t] = "leave_notify"
    /\ \E F \in Failing({loc[t].creator_id}) :
         LET st == send_to_user(SendStart, loc[t].creator_id, "lobby_joined_left", F) IN
         /\ sent' = st.log
         /\ active_connections' = st.conns
    /\ Return(t, Ret(t, "leave_lobby", loc[t].lobby_id, "none", TRUE, "none"))
    /\ UNCHANGED <<coinVars, edgeVars, lobbyVars, sessionVars>>

InitLobby == InitQueue

\* lobbies: creation, joining and leaving, interleaved
NextLobby ==
    \/ \E t \in Users, pw \in CreatePasswords : CreateLobbyCommit(t, pw)
    \/ \E t \in Users : CreateLobbyRegister(t)
    \/ \E t \in Users, id \in LobbyIds, pw \in JoinPasswords : JoinBegin(t, id, pw)
    \/ \E t \in Users : JoinGet(t)
    \/ \E t \in Users : JoinCommit(t)
    \/ \E t \in Users, id \in LobbyIds : LeaveBegin(t, id)
    \/ \E t \in Users : LeaveCreatorGet(t)
    \/ \E t \in Users : LeaveCreatorCommit(t)
    \/ \E t \in Users : LeaveJoinerGet(t)
    \/ \E t \in Users : LeaveJoinerCommit(t)
    \/ \E t \in Users : LeaveNotify(t)
    \/ \E u \in Users : Connect(u)

SpecLobby == InitLobby /\ [][NextLobby]_vars

\* ------------------------------------------------------------ ready and promotion
\* the sessions followed by the promotion specification
PromotedGameIds == {1, 2}
\* is_ready of a set_lobby_ready message, as recorded in ret
ReadyInput(is_ready) == IF is_ready THEN "True" ELSE "False"

\* the row of a session made by _start_game_from_lobby; from_lobby records
\* the lobby it was made of (history, not a column)
LobbyGameRow(lobby_id, player1_id, player2_id, game_type, stake) ==
    GameRow(player1_id, player2_id, game_type, stake) @@ [from_lobby |-> lobby_id]

\* set_lobby_ready (lines 402-415) up to the commit of _create_game
\* (_start_game_from_lobby lines 440-447, _create_game lines 98-120): the
\* flag is set, and when a joiner is present and both flags are true the
\* promotion starts with the mirror's creator and joiner
SetLobbyReady(t, lobby_id, is_ready) ==
    /\ pc[t] = "idle"
    /\ t \in active_connections
    /\ LET Done == Return(t, Ret(t, "set_lobby_ready", lobby_id, ReadyInput(is_ready),
                                 TRUE, "none")) IN
       IF lobby_id \notin DOMAIN active_lobbies
       THEN Done /\ UNCHANGED active_lobbies
       ELSE LET lobby == active_lobbies[lobby_id]
                flagged == IF t = lobby.creator_id
                           THEN [lobby EXCEPT !.creator_ready = is_ready]
                           ELSE [lobby EXCEPT !.joiner_ready = is_ready] IN
            IF t # lobby.creator_id /\ t # lobby.joiner_id
            THEN Done /\ UNCHANGED active_lobbies
            ELSE /\ active_lobbies' = [active_lobbies EXCEPT ![lobby_id] = flagged]
                 /\ IF flagged.joiner_id # 0 /\ flagged.creator_ready /\ flagged.joiner_ready
                    THEN /\ pc' = [pc EXCEPT ![t] = "promote_commit"]
                         /\ loc' = [loc EXCEPT ![t] =
                                [NoLoc EXCEPT !.lobby_id = lobby_id,
                                              !.p1 = flagged.creator_id,
                                              !.p2 = flagged.joiner_id]]
                         /\ ret' = NoRet
                    ELSE Done
    /\ sent' = <<>>
    /\ UNCHANGED <<coinVars, edgeVars, lobby_rows, lobby_seq, active_connections, sessionVars>>

\* _create_game called by _start_game_from_lobby, from its commit on (lines
\* 120-146), and the removal of the mirror entry (line 449): the session is
\* made, or the exception is caught and both players are put into the wait
\* queue; then the entry leaves the mirror, and a KeyError ends the call
\* when it has left already
PromoteCommit(t) ==
    /\ pc[t] = "promote_commit"
    /\ NextGameId \in PromotedGameIds
    /\ LET lobby_id == loc[t].lobby_id
           p1 == loc[t].p1
           p2 == loc[t].p2 IN
       /\ \/ \E F \in Failing({p1, p2}) :
               LET gid == NextGameId
                   st1 == send_to_user(SendStart, p1, "game_found", F)
                   st2 == send_to_user(st1, p2, "game_found", F) IN
               /\ game_rows' = (gid :> LobbyGameRow(lobby_id, p1, p2, "rps", 1)) @@ game_rows
               /\ games' = (gid :> ActiveGame(gid, p1, p2, "rps", 1)) @@ games
               /\ active_games' = active_games \cup {gid}
               /\ active_connections' = st2.conns
               /\ sent' = st2.log
               /\ UNCHANGED <<wait_queue, nextRid, create_failed>>
          \/ /\ wait_queue' = wait_queue \o
                    <<PendingMatchRequest(nextRid, p1, "rps", 1),
                      PendingMatchRequest(nextRid + 1, p2, "rps", 1)>>
             /\ nextRid' = nextRid + 2
             /\ create_failed' = TRUE
             /\ sent' = <<>>
             /\ UNCHANGED <<game_rows, games, active_games, active_connections>>
       /\ IF lobby_id \in DOMAIN active_lobbies
          THEN /\ active_lobbies' = Without(active_lobbies, lobby_id)
               /\ pc' = [pc EXCEPT ![t] = "promote_get"]
               /\ UNCHANGED loc
               /\ ret' = NoRet
          ELSE /\ Return(t, Ret(t, "set_lobby_ready", lobby_id, "True", FALSE, "raised"))
               /\ UNCHANGED active_lobbies
    /\ UNCHANGED <<coinVars, edgeVars, lobby_rows, lobby_seq, session_reqs, user_rows, now>>

\* _start_game_from_lobby, the row's arrival (lines 450-452)
PromoteGet(t) ==
    /\ pc[t] = "promote_get"
    /\ IF loc[t].lobby_id \in DOMAIN lobby_rows
       THEN /\ pc' = [pc EXCEPT ![t] = "promote_delete"]
            /\ UNCHANGED loc
            /\ ret' = NoRet
       ELSE Return(t, Ret(t, "set_lobby_ready", loc[t].lobby_id, "True", TRUE, "none"))
    /\ sent' = <<>>
    /\ UNCHANGED <<coinVars, edgeVars, lobbyVars, active_connections, sessionVars>>

\* _start_game_from_lobby, the deletion's commit (lines 453-455)
PromoteDelete(t) ==
    /\ pc[t] = "promote_delete"
    /\ \/ /\ lobby_rows' = Without(lobby_rows, loc[t].lobby_id)
          /\ Return(t, Ret(t, "set_lobby_ready", loc[t].lobby_id, "True", TRUE, "none"))
       \/ /\ Return(t, Ret(t, "set_lobby_ready", loc[t].lobby_id, "True", FALSE, "raised"))
          /\ UNCHANGED lobby_rows
    /\ sent' = <<>>
    /\ UNCHANGED <<coinVars, edgeVars, active_lobbies, lobby_seq, active_connections, sessionVars>>

\* lobby 1 of player 1, without password, its joiners and the ready flags
NextReady ==
    \/ CreateLobbyCommit(1, "None")
    \/ CreateLobbyRegister(1)
    \/ \E t \in Users : JoinBegin(t, 1, "None")
    \/ \E t \in Users : JoinGet(t)
    \/ \E t \in Users : JoinCommit(t)
    \/ \E t \in Users, id \in LobbyIds, r \in BOOLEAN : SetLobbyReady(t, id, r)
    \/ \E t \in Users : PromoteCommit(t)
    \/ \E t \in Users : PromoteGet(t)
    \/ \E t \in Users : PromoteDelete(t)
    \/ \E u \in Users : Connect(u)

SpecReady == InitLobby /\ [][NextReady]_vars

\* C11: no lobby produces more than one session
C11_OneSessionPerLobby ==
    \A id \in LobbyRowIds :
        Cardinality({g \in DOMAIN game_rows : game_rows[g].from_lobby = id}) <= 1

\* ------------------------------------------------------------ kick
\* a kick_from_lobby that lets any player of the lobby's connection kick
KickAllowed_AnyKicker(lobby_id, kicker_id, target_id) ==
    /\ lobby_id \in DOMAIN active_lobbies
    /\ target_id = active_lobbies[lobby_id].joiner_id

\* the checks of kick_from_lobby (lines 418-424)
KickAllowed(lobby_id, kicker_id, target_id) ==
    /\ lobby_id \in DOMAIN active_lobbies
    /\ active_lobbies[lobby_id].creator_id = kicker_id
    /\ target_id = active_lobbies[lobby_id].joiner_id

\* kick_from_lobby up to db.get (lines 417-432): the checks, then the
\* joiner slot is freed in the mirror
KickBegin(t, lobby_id, target_id) ==
    /\ pc[t] = "idle"
    /\ t \in active_connections
    /\ IF ~KickAllowed(lobby_id, t, target_id)
       THEN /\ Return(t, Ret(t, "kick_from_lobby", lobby_id, ToString(target_id), FALSE, "none"))
            /\ UNCHANGED active_lobbies
       ELSE /\ active_lobbies' = [active_lobbies EXCEPT ![lobby_id].joiner_id = 0,
                                                        ![lobby_id].joiner_ready = FALSE,
                                                        ![lobby_id].status = "waiting"]
            /\ pc' = [pc EXCEPT ![t] = "kick_get"]
            /\ loc' = [loc EXCEPT ![t] = [NoLoc EXCEPT !.lobby_id = lobby_id,
                                                       !.target_id = target_id]]
            /\ ret' = NoRet
    /\ sent' = <<>>
    /\ UNCHANGED <<coinVars, edgeVars, lobby_rows, lobby_seq, active_connections, sessionVars>>

\* kick_from_lobby, the row's arrival (lines 432-435): the row object is
\* changed (dirty) when it held a joiner or another status
KickGet(t) ==
    /\ pc[t] = "kick_get"
    /\ IF loc[t].lobby_id \in DOMAIN lobby_rows
       THEN /\ pc' = [pc EXCEPT ![t] = "kick_commit"]
            /\ loc' = [loc EXCEPT ![t].dirty =
                          \/ lobby_rows[loc[t].lobby_id].joiner_id # 0
                          \/ lobby_rows[loc[t].lobby_id].status # "waiting"]
            /\ ret' = NoRet
       ELSE Return(t, Ret(t, "kick_from_lobby", loc[t].lobby_id,
                          ToString(loc[t].target_id), TRUE, "none"))
    /\ sent' = <<>>
    /\ UNCHANGED <<coinVars, edgeVars, lobbyVars, active_connections, sessionVars>>

\* kick_from_lobby, the commit (lines 436-438): an unchanged row object is
\* not written; the UPDATE of a changed one raises when the row is gone, and
\* the commit may raise otherwise
KickCommit(t) ==
    /\ pc[t] = "kick_commit"
    /\ LET lobby_id == loc[t].lobby_id
           Result(ok, msg) == Return(t, Ret(t, "kick_from_lobby", lobby_id,
                                            ToString(loc[t].target_id), ok, msg)) IN
       \/ /\ ~loc[t].dirty
          /\ Result(TRUE, "none")
          /\ UNCHANGED lobby_rows
       \/ /\ loc[t].dirty
          /\ lobby_id \in DOMAIN lobby_rows
          /\ lobby_rows' = [lobby_rows EXCEPT ![lobby_id].joiner_id = 0,
                                              ![lobby_id].status = "waiting"]
          /\ Result(TRUE, "none")
       \/ /\ loc[t].dirty
          /\ Result(FALSE, "raised")
          /\ UNCHANGED lobby_rows
    /\ sent' = <<>>
    /\ UNCHANGED <<coinVars, edgeVars, active_lobbies, lobby_seq, active_connections, sessionVars>>

\* lobby 1 of player 1, without password: joining, leaving and kicking
NextKick ==
    \/ CreateLobbyCommit(1, "None")
    \/ CreateLobbyRegister(1)
    \/ \E t \in Users : JoinBegin(t, 1, "None")
    \/ \E t \in Users : JoinGet(t)
    \/ \E t \in Users : JoinCommit(t)
    \/ \E t \in Users : LeaveBegin(t, 1)
    \/ \E t \in Users : LeaveCreatorGet(t)
    \/ \E t \in Users : LeaveCreatorCommit(t)
    \/ \E t \in Users : LeaveJoinerGet(t)
    \/ \E t \in Users : LeaveJoinerCommit(t)
    \/ \E t \in Users : LeaveNotify(t)
    \/ \E t \in Users, id \in LobbyIds, target \in Users : KickBegin(t, id, target)
    \/ \E t \in Users : KickGet(t)
    \/ \E t \in Users : KickCommit(t)
    \/ \E u \in Users : Connect(u)

SpecKick == InitLobby /\ [][NextKick]_vars

\* ------------------------------------------------------------ lobby expiry
\* GameWebSocketHandler.disconnect (handlers.py lines 33-47): the connection
\* is unregistered and the lobbies the player created leave the mirror
Disconnect(u) ==
    /\ pc[u] = "idle"
    /\ u \in active_connections
    /\ active_connections' = active_connections \ {u}
    /\ active_lobbies' = [lid \in {l \in DOMAIN active_lobbies :
                                       active_lobbies[l].creator_id # u} |->
                             active_lobbies[lid]]
    /\ sent' = <<>>
    /\ ret' = NoRet
    /\ UNCHANGED <<coinVars, edgeVars, lobby_rows, lobby_seq, pc, loc, sessionVars>>

\* a sweep cycle has ended: ok tells whether it ended without an exception,
\* arg is the time the cycle took as now
SweepDone(ok) ==
    /\ pc' = [pc EXCEPT ![LobbySweepTask] = "idle"]
    /\ loc' = [loc EXCEPT ![LobbySweepTask] = NoLoc]
    /\ ret' = Ret(LobbySweepTask, "cleanup_expired_lobbies",
                  IF pc[LobbySweepTask] = "idle" THEN now ELSE loc[LobbySweepTask].started,
                  "none", ok, "none")

\* cleanup_expired_lobbies, one wake-up up to the first db.get (lines
\* 22-40): the expired entries leave the mirror
ExpirySweep ==
    /\ pc[LobbySweepTask] = "idle"
    /\ LET expired == {lid \in DOMAIN active_lobbies : active_lobbies[lid].expires_at < now} IN
       /\ active_lobbies' = [lid \in DOMAIN active_lobbies \ expired |-> active_lobbies[lid]]
       /\ IF expired = {}
          THEN SweepDone(TRUE)
          ELSE /\ pc' = [pc EXCEPT ![LobbySweepTask] = "expiry_get"]
               /\ loc' = [loc EXCEPT ![LobbySweepTask] =
                      [NoLoc EXCEPT !.todo = expired, !.started = now]]
               /\ ret' = NoRet
    /\ sent' = <<>>
    /\ UNCHANGED <<coinVars, edgeVars, lobby_rows, lobby_seq, active_connections, sessionVars>>

\* cleanup_expired_lobbies, the arrival of the next expired lobby's row
\* (lines 39-42): a row that is there is marked for deletion
ExpiryGet ==
    /\ pc[LobbySweepTask] = "expiry_get"
    /\ LET todo == loc[LobbySweepTask].todo
           lid == CHOOSE l \in todo : \A h \in todo : l <= h
           marked == loc[LobbySweepTask].marked \cup ({lid} \cap DOMAIN lobby_rows) IN
       /\ pc' = [pc EXCEPT ![LobbySweepTask] =
                    IF todo = {lid} THEN "expiry_commit" ELSE "expiry_get"]
       /\ loc' = [loc EXCEPT ![LobbySweepTask].todo = todo \ {lid},
                             ![LobbySweepTask].marked = marked]
    /\ sent' = <<>>
    /\ ret' = NoRet
    /\ UNCHANGED <<coinVars, edgeVars, lobbyVars, active_connections, sessionVars>>

\* cleanup_expired_lobbies, the commit (lines 43-47): the marked rows are
\* deleted, or the exception is logged and no row is
ExpiryCommit ==
    /\ pc[LobbySweepTask] = "expiry_commit"
    /\ \/ /\ lobby_rows' = [lid \in DOMAIN lobby_rows \ loc[LobbySweepTask].marked |->
                               lobby_rows[lid]]
          /\ SweepDone(TRUE)
       \/ /\ loc[LobbySweepTask].marked # {}
          /\ UNCHANGED lobby_rows
          /\ SweepDone(FALSE)
    /\ sent' = <<>>
    /\ UNCHANGED <<coinVars, edgeVars, active_lobbies, lobby_seq, active_connections, sessionVars>>

\* lobby 1 of player 1, its joiners, disconnects, the clock and the sweep
NextExpiry ==
    \/ CreateLobbyCommit(1, "None")
    \/ CreateLobbyRegister(1)
    \/ \E t \in Users : JoinBegin(t, 1, "None")
    \/ \E t \in Users : JoinGet(t)
    \/ \E t \in Users : JoinCommit(t)
    \/ \E u \in Users : Disconnect(u)
    \/ \E u \in Users : Connect(u)
    \/ Tick(lobby_lifetime)
    \/ ExpirySweep
    \/ ExpiryGet
    \/ ExpiryCommit

SpecExpiry == InitLobby /\ [][NextExpiry]_vars

\* C13: when a sweep cycle has ended without an exception and no lobby call
\* is under way, no lobby whose expires_at was in the past when the cycle
\* began is in the mirror or in the table
C13_ExpiredLobbiesSwept ==
    (/\ ret.op = "cleanup_expired_lobbies" /\ ret.ok
     /\ \A t \in Users : pc[t] = "idle") =>
        /\ \A lid \in DOMAIN active_lobbies : ~(active_lobbies[lid].expires_at < ret.arg)
        /\ \A lid \in DOMAIN lobby_rows : ~(lobby_rows[lid].expires_at < ret.arg)

\* ------------------------------------------------------------ coin service
\* CoinService (services/coin_service.py); amounts in hundredths of a coin.
\* Every call works on an AsyncSession of its own (get_db, one per request;
\* autoflush is off), so the objects added to the session reach the tables
\* at commit, in one transaction with the UPDATE of the users row.
DAILY_REWARD_BASE == 10000
DAILY_REWARD_STREAK_BONUS == 5000
MAX_STREAK_BONUS == 7

MaxEntries == 3
CoinTasks == {1, 2}
\* accounts the calls name: one that exists and one that has no users row
CoinUsers == {1, 9}
Amounts == {100, 250}
Days == 0..2
StreakDays_Range == 0..8

managerVars == <<wait_queue, nextRid, games, active_games, session_reqs,
                 create_failed, game_rows, user_rows, active_connections, sent,
                 loc, now, active_lobbies, lobby_rows, lobby_seq>>

Min(a, b) == IF a < b THEN a ELSE b

\* add_coins line 60
AddBalanceAfter_Twice(balance_before, amount) == balance_before + amount + amount

AddBalanceAfter(balance_before, amount) == balance_before + amount

\* deduct_coins line 121: the check that lets a deduction through
Sufficient_Always(balance_before, amount) == TRUE

Sufficient(balance_before, amount) == ~(balance_before < amount)

\* the amount written to the ledger (line 72, line 137)
LedgerAmount(d) == IF d.op = "deduct_coins" THEN 0 - d.amount ELSE d.amount

\* another session has updated the users row and not yet ended its transaction
RowLocked(t, user_id) ==
    \E o \in Tasks \ {t} : db[o].updated /\ db[o].user_id = user_id

\* add_coins or deduct_coins returns; inside claim_daily_reward the value is
\* dropped and the claim returns its success dict (lines 218-231); inside
\* authenticate_user the value is dropped too and the login goes on to
\* db.refresh (auth_service.py lines 70-78). Otherwise the session ends with
\* the request: what was pending and not committed is gone.
CoinReturn(t, d, ok) ==
    IF d.op = "authenticate_user"
    THEN /\ pc' = [pc EXCEPT ![t] = "auth_refresh"]
         /\ db' = [db EXCEPT ![t] = [d EXCEPT !.updated = FALSE, !.new = {}]]
         /\ UNCHANGED <<ret, claim_result>>
    ELSE /\ pc' = [pc EXCEPT ![t] = "idle"]
         /\ db' = [db EXCEPT ![t] = NoDb]
         /\ IF d.op = "claim_daily_reward"
            THEN /\ claim_result' = [task |-> t, user_id |-> d.user_id, success |-> TRUE,
                               coins_earned |-> d.coins_earned,
                               streak_days |-> d.streak_days, message |-> "Claimed"]
                 /\ UNCHANGED ret
            ELSE /\ ret' = Ret(t, d.op, d.user_id, ToString(d.amount), ok, "none")
                 /\ UNCHANGED claim_result

\* the SELECT of the users row and what follows up to the UPDATE (lines
\* 52-60, 111-125): no row or an insufficient balance returns False; an
\* exception rolls back and returns False
CoinSelect(t, d) ==
    \/ /\ d.user_id \notin DOMAIN balance_coins
       /\ CoinReturn(t, d, FALSE)
    \/ /\ d.user_id \in DOMAIN balance_coins
       /\ LET balance_before == balance_coins[d.user_id] IN
          IF d.op = "deduct_coins"
          THEN IF Sufficient(balance_before, d.amount)
               THEN /\ db' = [db EXCEPT ![t] =
                            [d EXCEPT !.balance_before = balance_before,
                                      !.balance_after = balance_before - d.amount]]
                    /\ pc' = [pc EXCEPT ![t] = "coin_update"]
                    /\ UNCHANGED <<ret, claim_result>>
               ELSE CoinReturn(t, d, FALSE)
          ELSE /\ db' = [db EXCEPT ![t] =
                       [d EXCEPT !.balance_before = balance_before,
                                 !.balance_after = AddBalanceAfter(balance_before, d.amount)]]
               /\ pc' = [pc EXCEPT ![t] = "coin_update"]
               /\ UNCHANGED <<ret, claim_result>>
    \/ CoinReturn(t, d, FALSE)

\* add_coins up to its UPDATE (lines 50-60)
AddBegin(t, user_id, amount) ==
    /\ pc[t] = "idle"
    /\ Len(coin_transactions) < MaxEntries
    /\ CoinSelect(t, [NoDb EXCEPT !.op = "add_coins", !.user_id = user_id,
                                  !.amount = amount, !.today = today,
                                  !.transaction_type = "admin_gift"])
    /\ UNCHANGED <<managerVars, edgeVars, balance_coins, coin_transactions, daily_rewards, today>>

\* deduct_coins up to its UPDATE (lines 109-125)
DeductBegin(t, user_id, amount) ==
    /\ pc[t] = "idle"
    /\ Len(coin_transactions) < MaxEntries
    /\ CoinSelect(t, [NoDb EXCEPT !.op = "deduct_coins", !.user_id = user_id,
                                  !.amount = amount, !.today = today,
                                  !.transaction_type = "game_stake"])
    /\ UNCHANGED <<managerVars, edgeVars, balance_coins, coin_transactions, daily_rewards, today>>

\* the UPDATE of the users row (lines 63-67, 128-132): it waits while another
\* transaction holds the row, then holds it until the transaction ends
CoinUpdate(t) ==
    /\ pc[t] = "coin_update"
    /\ \/ /\ ~RowLocked(t, db[t].user_id)
          /\ db' = [db EXCEPT ![t].updated = TRUE]
          /\ pc' = [pc EXCEPT ![t] = "coin_commit"]
          /\ UNCHANGED <<ret, claim_result>>
       \/ CoinReturn(t, db[t], FALSE)
    /\ UNCHANGED <<managerVars, edgeVars, balance_coins, coin_transactions, daily_rewards, today>>

\* the rows a session's pending DailyReward objects would collide with
\* (unique index idx_daily_rewards_user_date)
Duplicate(new) ==
    \E r \in new, q \in daily_rewards :
        q.user_id = r.user_id /\ q.reward_date = r.reward_date

\* db.commit() (lines 81, 146): the pending objects are inserted and the
\* transaction commits, or something raises (the unique index among it)
\* and the except branch rolls everything back and returns False
CoinCommit(t) ==
    /\ pc[t] = "coin_commit"
    /\ LET d == db[t] IN
       \/ /\ ~Duplicate(d.new)
          /\ balance_coins' = [balance_coins EXCEPT ![d.user_id] = d.balance_after]
          /\ coin_transactions' = Append(coin_transactions,
                [user_id |-> d.user_id, amount |-> LedgerAmount(d),
                 transaction_type |-> d.transaction_type,
                 balance_before |-> d.balance_before,
                 balance_after |-> d.balance_after,
                 created_at |-> d.today])
          /\ daily_rewards' = daily_rewards \cup d.new
          /\ CoinReturn(t, d, TRUE)
       \/ /\ CoinReturn(t, d, FALSE)
          /\ UNCHANGED <<balance_coins, coin_transactions, daily_rewards>>
    /\ UNCHANGED <<managerVars, edgeVars, today>>

\* credits and debits of an account and of an unknown one, interleaved
NextLedger ==
    \/ \E t \in CoinTasks, u \in CoinUsers, a \in Amounts : AddBegin(t, u, a)
    \/ \E t \in CoinTasks, u \in CoinUsers, a \in Amounts : DeductBegin(t, u, a)
    \/ \E t \in CoinTasks : CoinUpdate(t)
    \/ \E t \in CoinTasks : CoinCommit(t)

SpecLedger == InitQueue /\ [][NextLedger]_vars

\* the account's latest DailyReward by reward_date, if any (lines 180-186)
LastReward(user_id) ==
    LET rs == {r \in daily_rewards : r.user_id = user_id} IN
    IF rs = {} THEN <<>>
    ELSE <<CHOOSE r \in rs : \A q \in rs : q.reward_date <= r.reward_date>>

\* lines 189-200
StreakDays_NoCap(last_reward, day) ==
    IF last_reward # <<>> /\ last_reward[1].reward_date = day - 1
    THEN last_reward[1].streak_days + 1
    ELSE 1

StreakDays(last_reward, day) ==
    IF last_reward # <<>>
    THEN IF last_reward[1].reward_date = day - 1
         THEN Min(last_reward[1].streak_days + 1, MAX_STREAK_BONUS)
         ELSE 1
    ELSE 1

\* lines 203-206
CoinsEarned(streak_days) ==
    IF streak_days > 1
    THEN DAILY_REWARD_BASE + DAILY_REWARD_STREAK_BONUS * (streak_days - 1)
    ELSE DAILY_REWARD_BASE

\* the check for a reward of today (lines 167-171)
ClaimedToday_Never(user_id, day) == FALSE

ClaimedToday(user_id, day) ==
    \E r \in daily_rewards : r.user_id = user_id /\ r.reward_date = day

\* claim_daily_reward returns a failure dict (lines 172-177, 236-241); the
\* except branch has rolled the session back
ClaimFails(t, user_id, message) ==
    /\ claim_result' = [task |-> t, user_id |-> user_id, success |-> FALSE,
                        coins_earned |-> 0, streak_days |-> 0, message |-> message]
    /\ pc' = [pc EXCEPT ![t] = "idle"]
    /\ db' = [db EXCEPT ![t] = NoDb]

\* claim_daily_reward up to its second SELECT (lines 163-185)
ClaimBegin(t, user_id) ==
    /\ pc[t] = "idle"
    /\ \/ IF ClaimedToday(user_id, today)
          THEN ClaimFails(t, user_id, "Already claimed today")
          ELSE /\ db' = [db EXCEPT ![t] =
                       [NoDb EXCEPT !.op = "claim_daily_reward",
                                    !.user_id = user_id, !.today = today]]
               /\ pc' = [pc EXCEPT ![t] = "claim_last"]
               /\ UNCHANGED claim_result
       \/ ClaimFails(t, user_id, "Error claiming reward")
    /\ UNCHANGED <<managerVars, edgeVars, ret, balance_coins, coin_transactions,
                   daily_rewards, today>>

\* the latest reward is read, streak and coins are computed, the DailyReward
\* is added to the session and add_coins is entered (lines 186-224, 50-52)
ClaimLast(t) ==
    /\ pc[t] = "claim_last"
    /\ \/ LET d == db[t]
              streak_days == StreakDays(LastReward(d.user_id), d.today)
              coins_earned == CoinsEarned(streak_days)
          IN  /\ db' = [db EXCEPT ![t] =
                      [d EXCEPT !.streak_days = streak_days,
                                !.coins_earned = coins_earned,
                                !.amount = coins_earned,
                                !.transaction_type = "daily_bonus",
                                !.new = {[user_id |-> d.user_id,
                                          reward_date |-> d.today,
                                          coins_earned |-> coins_earned,
                                          streak_days |-> streak_days]}]]
              /\ pc' = [pc EXCEPT ![t] = "coin_select"]
              /\ UNCHANGED claim_result
       \/ ClaimFails(t, db[t].user_id, "Error claiming reward")
    /\ UNCHANGED <<managerVars, edgeVars, ret, balance_coins, coin_transactions,
                   daily_rewards, today>>

\* add_coins inside claim_daily_reward: its SELECT of the users row
ClaimSelect(t) ==
    /\ pc[t] = "coin_select"
    /\ CoinSelect(t, db[t])
    /\ UNCHANGED <<managerVars, edgeVars, balance_coins, coin_transactions, daily_rewards, today>>

\* midnight
NextDay(days) ==
    /\ today + 1 \in days
    /\ today' = today + 1
    /\ UNCHANGED <<managerVars, edgeVars, pc, ret, balance_coins, coin_transactions,
                   daily_rewards, db, claim_result>>

\* two requests claiming the daily reward of account 1, over the days
NextDaily ==
    \/ \E t \in CoinTasks : ClaimBegin(t, 1)
    \/ \E t \in CoinTasks : ClaimLast(t)
    \/ \E t \in CoinTasks : ClaimSelect(t)
    \/ \E t \in CoinTasks : CoinUpdate(t)
    \/ \E t \in CoinTasks : CoinCommit(t)
    \/ NextDay(Days)

SpecDaily == InitQueue /\ [][NextDaily]_vars

\* one request at a time claiming the daily reward of account 1, on some
\* days and not on others, for long enough to reach the cap of the streak
NextStreak ==
    \/ ClaimBegin(1, 1)
    \/ ClaimLast(1)
    \/ ClaimSelect(1)
    \/ CoinUpdate(1)
    \/ CoinCommit(1)
    \/ NextDay(StreakDays_Range)

SpecStreak == InitQueue /\ [][NextStreak]_vars

\* ------------------------------------------------------------ login
\* POST /api/auth/login: main.py login (lines 40-103) and routers/auth.py
\* login with AuthService.authenticate_user (auth_service.py lines 20-109).
\* initData is a sequence of key=value pairs; times are minutes.
TELEGRAM_BOT_TOKEN == "bot_token"

\* HMAC-SHA256 as a function that tells keys and messages apart
Hmac(key, msg) == "H(" \o key \o "," \o msg \o ")"

\* the value of a key in a sequence of pairs: the last one wins, as in the
\* loop that fills params
LastValue(pairs, k) ==
    LET is == {i \in DOMAIN pairs : pairs[i][1] = k} IN
    pairs[CHOOSE i \in is : \A j \in is : j <= i][2]

\* the loop over init_data.split("&") (main.py lines 51-57, auth_service.py
\* lines 33-39): every key but hash, with its value
ParseInitData(init_data) ==
    [k \in {init_data[i][1] : i \in DOMAIN init_data} \ {"hash"} |->
        LastValue(init_data, k)]

\* the data-check string of the host platform: the fields but hash as
\* key=value lines in the order of the keys
DataCheckString(init_data) ==
    LET params == ParseInitData(init_data) IN
    (IF "auth_date" \in DOMAIN params
     THEN "auth_date=" \o params["auth_date"] \o "\n" ELSE "") \o
    (IF "user" \in DOMAIN params THEN "user=" \o params["user"] ELSE "")

\* the hash the host platform signs an initData with
TelegramHash(init_data) ==
    Hmac(Hmac("WebAppData", TELEGRAM_BOT_TOKEN), DataCheckString(init_data))

MakeInit(auth_date, user, hash) ==
    (IF auth_date = "absent" THEN <<>> ELSE <<<<"auth_date", auth_date>>>>) \o
    (IF user = "absent" THEN <<>> ELSE <<<<"user", user>>>>) \o
    (IF hash = "absent" THEN <<>> ELSE <<<<"hash", hash>>>>)

Signed(auth_date, user) ==
    MakeInit(auth_date, user, TelegramHash(MakeInit(auth_date, user, "absent")))

\* the payloads a client sends: signed ones of an old and of a new account,
\* with and without auth_date; one with a wrong hash, one without hash, one
\* whose user field was replaced after signing; ones without user, without
\* id, with a user that is no JSON; and none at all
InitDatas ==
    {Signed("0", "u101"), Signed("0", "u104"), Signed("absent", "u101"),
     MakeInit("0", "u104", "bad"), MakeInit("0", "u104", "absent"),
     MakeInit("0", "u104", TelegramHash(MakeInit("0", "u101", "absent"))),
     Signed("0", "absent"), Signed("0", "noid"), Signed("0", "notjson"),
     <<>>}

\* json.loads(params['user']) and the two .get (lines 63-65, 48-50)
UserData(user) ==
    IF user = "u101" THEN [json |-> TRUE, id |-> 101, username |-> "new"]
    ELSE IF user = "u104" THEN [json |-> TRUE, id |-> 104, username |-> "new"]
    ELSE IF user = "u101n" THEN [json |-> TRUE, id |-> 101, username |-> "None"]
    ELSE IF user = "noid" THEN [json |-> TRUE, id |-> 0, username |-> "new"]
    ELSE [json |-> FALSE, id |-> 0, username |-> "none"]

INITIAL_BONUS == 100000
\* the lifetime of the token, in minutes (main.py line 82, auth_service.py
\* line 84)
TokenLifetime(op) == IF op = "login" THEN 60 ELSE 1440

\* the status of a refusal: main.py answers 400 to what it checks itself
\* and 500 to an exception; authenticate_user turns both into success False,
\* which the router answers with 400
FailStatus(op, checked) == IF op = "login" /\ ~checked THEN 500 ELSE 400

loginFrame == <<wait_queue, nextRid, games, active_games, session_reqs,
                create_failed, game_rows, active_connections, sent, loc, now,
                active_lobbies, lobby_rows, lobby_seq, ret, coin_transactions,
                daily_rewards, today, claim_result, sockets, conn_ws, ws_sent>>

LoginFail(t, d, checked) ==
    /\ login_out' = [task |-> t, op |-> d.op, status |-> FailStatus(d.op, checked),
                     access_token |-> NoToken, user_id |-> 0,
                     init_data |-> d.init_data]
    /\ pc' = [pc EXCEPT ![t] = "idle"]
    /\ db' = [db EXCEPT ![t] = NoDb]

\* create_access_token and the answer (main.py lines 81-96, auth_service.py
\* lines 80-102)
LoginOk(t, d) ==
    /\ login_out' = [task |-> t, op |-> d.op, status |-> 200,
                     access_token |-> [sub |-> d.user_id,
                                       exp |-> now + TokenLifetime(d.op),
                                       key |-> "SECRET_KEY"],
                     user_id |-> d.user_id, init_data |-> d.init_data]
    /\ pc' = [pc EXCEPT ![t] = "idle"]
    /\ db' = [db EXCEPT ![t] = NoDb]

\* the checks a login makes on the payload before it touches the table
PayloadAccepted(init_data) ==
    /\ init_data # <<>>
    /\ "user" \in DOMAIN ParseInitData(init_data)
    /\ UserData(ParseInitData(init_data)["user"]).json
    /\ UserData(ParseInitData(init_data)["user"]).id # 0

\* the login up to the SELECT of create_or_update_user (main.py lines 42-73,
\* auth_service.py lines 31-61, crud/user.py lines 12-22)
LoginBegin(t, op, init_data) ==
    /\ pc[t] = "idle"
    /\ LET d == [NoDb EXCEPT !.op = op, !.init_data = init_data] IN
       IF PayloadAccepted(init_data)
       THEN LET user_data == UserData(ParseInitData(init_data)["user"]) IN
            /\ db' = [db EXCEPT ![t] = [d EXCEPT !.telegram_id = user_data.id,
                                                 !.username = user_data.username]]
            /\ pc' = [pc EXCEPT ![t] = "login_get"]
            /\ UNCHANGED login_out
       ELSE LoginFail(t, d,
                \/ init_data = <<>>
                \/ "user" \notin DOMAIN ParseInitData(init_data)
                \/ UserData(ParseInitData(init_data)["user"]).json)
    /\ UNCHANGED <<loginFrame, tg_users, user_rows, balance_coins>>

\* get_user_by_telegram_id answers (crud/user.py lines 12-40)
LoginGet(t) ==
    /\ pc[t] = "login_get"
    /\ \/ /\ db' = [db EXCEPT ![t].user_id =
                        IF db[t].telegram_id \in DOMAIN tg_users
                        THEN tg_users[db[t].telegram_id].id ELSE 0]
          /\ pc' = [pc EXCEPT ![t] = "login_commit"]
          /\ UNCHANGED login_out
       \/ LoginFail(t, db[t], FALSE)
    /\ UNCHANGED <<loginFrame, tg_users, user_rows, balance_coins>>

\* a table without the unique index
TelegramIdTaken_Never(telegram_id) == FALSE

\* unique=True of User.telegram_id (models.py line 15): an INSERT of a
\* telegram_id that has a row raises
TelegramIdTaken(telegram_id) == telegram_id \in DOMAIN tg_users

ZeroStats == [total_games_played |-> 0, total_wins |-> 0, total_losses |-> 0,
              total_won_ton |-> 0]

\* db.commit() of create_or_update_user (crud/user.py lines 24-41): the row
\* found is updated, or a row is inserted (telegram_id is unique)
LoginCommit(t) ==
    /\ pc[t] = "login_commit"
    /\ LET d == db[t]
           tid == d.telegram_id
           id == Cardinality(DOMAIN user_rows) + 1
       IN
       \/ /\ d.user_id # 0
          /\ tg_users' = [tg_users EXCEPT ![tid] =
                [id |-> @.id,
                 username |-> IF Truthy(d.username) /\ @.username # d.username
                              THEN d.username ELSE @.username,
                 last_active_at |-> now,
                 referral_link |-> @.referral_link]]
          /\ pc' = [pc EXCEPT ![t] = "login_refresh"]
          /\ UNCHANGED <<db, login_out, user_rows, balance_coins>>
       \/ /\ d.user_id = 0
          /\ ~TelegramIdTaken(tid)
          /\ tg_users' = (tid :> [id |-> id, username |-> d.username,
                                  last_active_at |-> now,
                                  referral_link |-> <<"ref_", tid>>]) @@ tg_users
          /\ user_rows' = (id :> ZeroStats) @@ user_rows
          /\ balance_coins' = (id :> 0) @@ balance_coins
          /\ db' = [db EXCEPT ![t].user_id = id]
          /\ pc' = [pc EXCEPT ![t] = "login_refresh"]
          /\ UNCHANGED login_out
       \/ /\ LoginFail(t, d, FALSE)
          /\ UNCHANGED <<tg_users, user_rows, balance_coins>>
    /\ UNCHANGED loginFrame

\* db.refresh(user) of create_or_update_user and what follows it: main.py
\* issues the token; authenticate_user first enters add_coins for an
\* account whose balance of coins is 0 (auth_service.py lines 67-76)
LoginRefresh(t) ==
    /\ pc[t] = "login_refresh"
    /\ LET d == db[t] IN
       \/ IF d.op = "authenticate_user" /\ balance_coins[d.user_id] = 0
          THEN /\ db' = [db EXCEPT ![t] =
                       [d EXCEPT !.amount = INITIAL_BONUS, !.today = today,
                                 !.transaction_type = "initial_bonus"]]
               /\ pc' = [pc EXCEPT ![t] = "coin_select"]
               /\ UNCHANGED login_out
          ELSE LoginOk(t, d)
       \/ LoginFail(t, d, FALSE)
    /\ UNCHANGED <<loginFrame, tg_users, user_rows, balance_coins>>

\* db.refresh(user) after add_coins, then the token (auth_service.py lines
\* 78-102)
AuthRefresh(t) ==
    /\ pc[t] = "auth_refresh"
    /\ \/ LoginOk(t, db[t])
       \/ LoginFail(t, db[t], FALSE)
    /\ UNCHANGED <<loginFrame, tg_users, user_rows, balance_coins>>

LoginOps == {"login", "authenticate_user"}

\* logins, one after the other, and the clock
NextLogin ==
    \/ \E op \in LoginOps, i \in InitDatas : LoginBegin(1, op, i)
    \/ LoginGet(1)
    \/ LoginCommit(1)
    \/ LoginRefresh(1)
    \/ ClaimSelect(1)
    \/ CoinUpdate(1)
    \/ CoinCommit(1)
    \/ AuthRefresh(1)
    \/ Tick(1441)

SpecLogin == InitQueue /\ [][NextLogin]_vars

\* the payloads of the account specification: an existing account with a
\* new name and without a name, and a new account
AccountInits == {MakeInit("0", "u101", "absent"), MakeInit("0", "u101n", "absent"),
                 MakeInit("0", "u104", "absent")}

\* two logins of main.py at a time: create_or_update_user interleaved
NextAccount ==
    \/ \E t \in CoinTasks, i \in AccountInits : LoginBegin(t, "login", i)
    \/ \E t \in CoinTasks : LoginGet(t)
    \/ \E t \in CoinTasks : LoginCommit(t)
    \/ \E t \in CoinTasks : LoginRefresh(t)

SpecAccount == InitQueue /\ [][NextAccount]_vars

\* ------------------------------------------------------------ the websocket endpoint
SECRET_KEY == "SECRET_KEY"
WS_1008_POLICY_VIOLATION == 1008
WS_1011_INTERNAL_ERROR == 1011
\* the two definitions of /ws/game: main.py's and the router's of game_ws.py
Endpoints == {"main", "game_ws"}
\* the query parameter token of a client: none, a token of player 1 or 2, an
\* expired one, one signed with another key, one without sub
SocketTokens ==
    {NoToken} \cup {[sub |-> u, exp |-> 60, key |-> SECRET_KEY] : u \in {1, 2}}
              \cup {[sub |-> 1, exp |-> 0, key |-> SECRET_KEY],
                    [sub |-> 1, exp |-> 60, key |-> "other"],
                    [sub |-> 0, exp |-> 60, key |-> SECRET_KEY]}

\* a verification that forgets the expiry
verify_token_NoExpiry(token) == IF token.key # SECRET_KEY THEN 0 ELSE token.sub

\* verify_token: the user_id of the token, 0 for None (the signature is wrong,
\* the token has expired, or it carries no sub)
verify_token(token) ==
    IF token.key # SECRET_KEY THEN 0
    ELSE IF token.exp <= now THEN 0
    ELSE token.sub

\* what a client sends on an open websocket: text that is not JSON, JSON that
\* is not an object, and objects by their action (join_queue and make_move
\* also without their required fields)
Messages == {"notjson", "nonobject", "unknown", "ping", "join_queue",
             "join_queue_nostake", "leave_queue", "make_move_nogame"}

\* whether the loop gets as far as routing the message on its action
Routed(m) == m \notin {"notjson", "nonobject"}

ErrorEvent(message) == [type |-> "error", message |-> message]

\* what the loop answers on the websocket. handlers.py calls add_to_queue with
\* four arguments (TypeError) and remove_from_queue, which GameManager has not
\* (AttributeError); data.get of a non-object raises AttributeError
Answer(endpoint, m) ==
    CASE m = "notjson" -> ErrorEvent("Invalid JSON format")
      [] m = "nonobject" -> ErrorEvent("Internal server error")
      [] m = "unknown" -> ErrorEvent("Unknown action")
      [] m = "ping" -> [type |-> "pong", message |-> "none"]
      [] m = "join_queue_nostake" -> ErrorEvent("Stake is required to join queue")
      [] m = "make_move_nogame" -> ErrorEvent("Game ID and move are required")
      [] m = "join_queue" -> ErrorEvent("Internal server error")
      [] m = "leave_queue" -> IF endpoint = "game_ws"
                              THEN ErrorEvent("Internal server error")
                              ELSE [type |-> "queue_left", message |-> "Left the queue"]

\* a loop that gives up the connection on an error
LoopAfter_ErrorEnds(type) == IF type = "error" THEN "closed" ELSE "open"

\* the loop after an answer: both except clauses are inside while True
LoopAfter(type) == "open"

\* what the outer handlers do when the loop is left: handler.disconnect()
\* removes the creator's lobbies, main.py's except Exception does not
RemovesLobbies(endpoint, raised) ==
    endpoint = "game_ws" \/ raised = "WebSocketDisconnect"

\* what the send of the error event raises once the client is gone: the
\* framework's WebSocketDisconnect or another exception
SendRaises == {"WebSocketDisconnect", "RuntimeError"}

socketFrame == <<wait_queue, nextRid, games, active_games, session_reqs,
                 create_failed, game_rows, user_rows, sent, pc, loc, now,
                 lobby_rows, lobby_seq, ret, coinVars, authVars>>

\* a client opens /ws/game
ClientOpen(s, endpoint, token) ==
    /\ sockets[s].state = "none"
    /\ sockets' = [sockets EXCEPT ![s] = [NoSocket EXCEPT !.state = "connecting",
                                                          !.endpoint = endpoint,
                                                          !.token = token]]
    /\ ws_sent' = <<>>
    /\ UNCHANGED <<active_connections, conn_ws, active_lobbies, socketFrame>>

\* the endpoint up to its loop: the token check, connect_user, "connected"
WebsocketEndpoint(s) ==
    /\ sockets[s].state = "connecting"
    /\ LET token == sockets[s].token
           user_id == IF token = NoToken THEN 0 ELSE verify_token(token)
       IN  IF user_id = 0
           THEN /\ sockets' = [sockets EXCEPT ![s].state = "closed",
                                              ![s].code = WS_1008_POLICY_VIOLATION]
                /\ ws_sent' = <<>>
                /\ UNCHANGED <<active_connections, conn_ws>>
           ELSE /\ sockets' = [sockets EXCEPT ![s].state = "open",
                                              ![s].user_id = user_id]
                /\ active_connections' = active_connections \cup {user_id}
                /\ conn_ws' = [conn_ws EXCEPT ![user_id] = s]
                /\ ws_sent' = <<[ws |-> s, type |-> "connected"]>>
    /\ UNCHANGED <<active_lobbies, socketFrame>>

\* one turn of the loop for a message handled without a manager call:
\* receive_json, the routing and the answer. main.py's join_queue goes on in
\* add_to_queue
Receive(s, m) ==
    /\ sockets[s].state = "open"
    /\ pc[sockets[s].user_id] = "idle"
    /\ m = "join_queue" => sockets[s].endpoint = "game_ws"
    /\ LET answer == Answer(sockets[s].endpoint, m)
       IN  /\ sockets' = [sockets EXCEPT
                  ![s].state = LoopAfter(answer.type),
                  ![s].dispatched = @ \/ Routed(m),
                  ![s].erred = @ \/ answer.type = "error",
                  ![s].after_error = @ \/ (sockets[s].erred /\ Routed(m))]
           /\ ws_sent' = <<[ws |-> s, type |-> answer.type]>>
    /\ UNCHANGED <<active_connections, conn_ws, active_lobbies, socketFrame>>

\* the client is gone: receive_json raises WebSocketDisconnect, the loop's
\* except Exception catches it and its send of the error event raises; the
\* outer handler ends the connection
ConnectionEnds(s, raised) ==
    /\ sockets[s].state = "open"
    /\ pc[sockets[s].user_id] = "idle"
    /\ LET user_id == sockets[s].user_id
       IN  /\ active_connections' = active_connections \ {user_id}
           /\ conn_ws' = [conn_ws EXCEPT ![user_id] = 0]
           /\ active_lobbies' =
                  IF RemovesLobbies(sockets[s].endpoint, raised)
                  THEN [lid \in {l \in DOMAIN active_lobbies :
                                     active_lobbies[l].creator_id # user_id} |->
                            active_lobbies[lid]]
                  ELSE active_lobbies
    /\ sockets' = [sockets EXCEPT
           ![s].state = "closed",
           ![s].code = IF raised = "WebSocketDisconnect" THEN 0
                       ELSE WS_1011_INTERNAL_ERROR]
    /\ ws_sent' = <<>>
    /\ UNCHANGED socketFrame

\* a player with a websocket in its loop
InLoop(u) == \E s \in Sockets : sockets[s].state = "open" /\ sockets[s].user_id = u

InitSocket == InitRest /\ active_connections = {}

NextSocket ==
    \/ \E s \in Sockets, e \in Endpoints, token \in SocketTokens : ClientOpen(s, e, token)
    \/ \E s \in Sockets : WebsocketEndpoint(s)
    \/ \E s \in Sockets, m \in Messages : Receive(s, m)
    \/ \E s \in Sockets, raised \in SendRaises : ConnectionEnds(s, raised)
    \/ \E t \in Users : InLoop(t) /\ CreateLobbyCommit(t, "None")
    \/ \E t \in Users : CreateLobbyRegister(t)

SpecSocket == InitSocket /\ [][NextSocket]_vars

\* ------------------------------------------------------------ claims about sessions
\* the player in a slot of a session
PlayerOf(g, k) == IF k = "player1" THEN games[g].player1_id ELSE games[g].player2_id
OtherSlot(k) == IF k = "player1" THEN "player2" ELSE "player1"
Score(g) == games[g].state.score
\* the number of slots a player holds in sessions whose row is finished
FinishedSlots(u) ==
    Cardinality({gk \in (DOMAIN game_rows) \X Slots :
                    /\ game_rows[gk[1]].finished_at # -1
                    /\ PlayerOf(gk[1], gk[2]) = u})

\* C3: a session is finalized once: its row is written by one settlement
\* only, and each player's games-played counter has grown by exactly one
\* for each slot the player holds in a finished session
C3_FinalizedOnce ==
    /\ \A g \in DOMAIN game_rows : game_rows[g].writes <= 1
    /\ \A u \in Users : user_rows[u].total_games_played = FinishedSlots(u)

\* C4: the settlement of a session with a winner adds one win, one game
\* played and the pot less a rake of 5% of the pot to the winner's row, one
\* loss and one game played and no winnings to the loser's row, and changes
\* no other player's row; at stake 10 the rake is 1 and the payout 19
\* (amounts in hundredths)
C4_SettlementWithWinner ==
    [][\A g \in DOMAIN game_rows :
         (game_rows'[g].writes = game_rows[g].writes + 1 /\ game_rows'[g].winner_id # 0) =>
            LET w == game_rows'[g].winner_id
                l == IF w = game_rows[g].player1_id THEN game_rows[g].player2_id
                     ELSE game_rows[g].player1_id
                pot == 2 * game_rows[g].stake * 100
                rake == (5 * pot) \div 100
                payout == pot - rake IN
            /\ w \in {game_rows[g].player1_id, game_rows[g].player2_id}
            /\ w # l
            /\ 100 * rake = 5 * pot
            /\ game_rows[g].stake = 10 => (rake = 100 /\ payout = 1900)
            /\ user_rows'[w] =
                 [total_games_played |-> user_rows[w].total_games_played + 1,
                  total_wins |-> user_rows[w].total_wins + 1,
                  total_losses |-> user_rows[w].total_losses,
                  total_won_ton |-> user_rows[w].total_won_ton + payout]
            /\ user_rows'[l] =
                 [total_games_played |-> user_rows[l].total_games_played + 1,
                  total_wins |-> user_rows[l].total_wins,
                  total_losses |-> user_rows[l].total_losses + 1,
                  total_won_ton |-> user_rows[l].total_won_ton]
            /\ \A u \in Users \ {w, l} : user_rows'[u] = user_rows[u]
            /\ game_rows'[g].result =
                 (IF w = game_rows[g].player1_id THEN "player1_win" ELSE "player2_win")
      ]_vars

\* C4 witness: a session at stake 10 has been settled with player 2 as the
\* winner, who has been credited 19
C4_Witness ==
    \E g \in DOMAIN game_rows :
        /\ game_rows[g].writes = 1
        /\ game_rows[g].stake = 10
        /\ game_rows[g].winner_id = 2
        /\ user_rows[2].total_won_ton = 1900
        /\ user_rows[1].total_losses = 1

\* what C5 says of every state: scores stay within 0..3 and only one slot
\* can hold 3; the engine reports the game over exactly when a score is 3;
\* a move handler is inside _end_game only for a session in which a score
\* is 3, with that slot's player as the winner; a settled row names that
\* player
C5_Scores ==
    /\ \A g \in DOMAIN games :
          /\ Score(g)["player1"] \in 0..3 /\ Score(g)["player2"] \in 0..3
          /\ ~(Score(g)["player1"] = 3 /\ Score(g)["player2"] = 3)
          /\ is_game_over(games[g].state) <=>
                (Score(g)["player1"] = 3 \/ Score(g)["player2"] = 3)
          /\ game_rows[g].writes > 0 =>
                \E k \in Slots : /\ Score(g)[k] = 3
                                 /\ game_rows[g].winner_id = PlayerOf(g, k)
    /\ \A t \in Users :
          pc[t] \in {"end_game", "end_notify"} =>
             \E k \in Slots : /\ Score(loc[t].game_id)[k] = 3
                              /\ loc[t].winner_id = PlayerOf(loc[t].game_id, k)

\* what C5 says of every step: a score changes only in the handling of the
\* move that ends a round, by one, for the round's winner, and not at all
\* in a drawn round; the handling of the move after which a score is 3 goes
\* on into _end_game with that slot's player as the winner, and the handling
\* of any other round-ending move resets the round and returns
C5_Steps ==
    /\ \A g \in DOMAIN games :
          games'[g].state.score # Score(g) =>
             \E t \in Users : \E k \in Slots :
                /\ pc[t] = "idle" /\ pc'[t] = "round_sent"
                /\ loc'[t].game_id = g
                /\ loc'[t].round_winner = k
                /\ games'[g].state.score[k] = Score(g)[k] + 1
                /\ games'[g].state.score[OtherSlot(k)] = Score(g)[OtherSlot(k)]
    /\ \A t \in Users :
          (pc[t] = "idle" /\ pc'[t] = "round_sent" /\ loc'[t].round_winner = "draw") =>
             games'[loc'[t].game_id].state.score = Score(loc'[t].game_id)
    /\ \A t \in Users :
          (pc[t] = "round_sent" /\ pc'[t] # "round_sent") =>
             LET g == loc[t].game_id IN
             IF \E k \in Slots : Score(g)[k] = 3
             THEN /\ pc'[t] = "end_game"
                  /\ loc'[t].game_id = g
                  /\ \E k \in Slots : /\ Score(g)[k] = 3
                                      /\ loc'[t].winner_id = PlayerOf(g, k)
                  /\ games' = games
             ELSE /\ pc'[t] = "idle"
                  /\ games'[g].state.moves = EmptyMoves
                  /\ games'[g].state.score = Score(g)

\* C5: a rock-paper-scissors session is over exactly when a score reaches 3
\* wins, never earlier; a decided round adds one to its winner's score only,
\* a drawn round to none; and the session is settled in the handling of the
\* move with which a score reaches 3
C5_GameOverAtThree == []C5_Scores /\ [][C5_Steps]_vars

\* C5 witness: player 2 has reached 3 wins against 1 of player 1 and the
\* handler of the last move has settled the session with player 2 as winner
C5_Witness ==
    \E g \in DOMAIN games :
        /\ Score(g) = [player1 |-> 1, player2 |-> 3]
        /\ \E t \in Users : pc[t] = "end_notify" /\ loc[t].game_id = g
        /\ game_rows[g].winner_id = 2

\* C6: while a slot has not moved the round has no decision and no handler
\* is past a round's end; when both have moved the decision the handler took
\* is the one of the table: equal moves draw, rock beats scissors, scissors
\* beats paper, paper beats rock
C6_RoundDecision ==
    /\ \A g \in DOMAIN games :
          (Slots \ DOMAIN games[g].state.moves # {}) =>
             /\ check_round_end(games[g].state) = "none"
             /\ \A t \in Users : ~(pc[t] = "round_sent" /\ loc[t].game_id = g)
    /\ \A t \in Users :
          pc[t] = "round_sent" =>
             LET moves == games[loc[t].game_id].state.moves IN
             /\ DOMAIN moves = Slots
             /\ loc[t].round_winner =
                  CASE <<moves["player1"], moves["player2"]>> = <<"rock", "rock">> -> "draw"
                    [] <<moves["player1"], moves["player2"]>> = <<"rock", "paper">> -> "player2"
                    [] <<moves["player1"], moves["player2"]>> = <<"rock", "scissors">> -> "player1"
                    [] <<moves["player1"], moves["player2"]>> = <<"paper", "rock">> -> "player1"
                    [] <<moves["player1"], moves["player2"]>> = <<"paper", "paper">> -> "draw"
                    [] <<moves["player1"], moves["player2"]>> = <<"paper", "scissors">> -> "player2"
                    [] <<moves["player1"], moves["player2"]>> = <<"scissors", "rock">> -> "player2"
                    [] <<moves["player1"], moves["player2"]>> = <<"scissors", "paper">> -> "player1"
                    [] <<moves["player1"], moves["player2"]>> = <<"scissors", "scissors">> -> "draw"

\* C6 witness: the round of scissors against rock has just been decided
C6_Witness ==
    \E t \in Users :
        /\ pc[t] = "round_sent"
        /\ games[loc[t].game_id].state.moves = [player1 |-> "scissors", player2 |-> "rock"]
        /\ loc[t].round_winner = "player2"

\* what C7 says of every step: a make_move is applied exactly when the
\* session is registered, the sender is one of its players, the move is one
\* of rock, paper, scissors and the sender's slot has not moved in this
\* round; an applied move is the one recorded for the slot; a recorded move
\* is not replaced while the round lasts
C7_Steps ==
    /\ ret'.op = "make_move" =>
          LET t == ret'.task
              g == ret'.arg
              move == ret'.input
              known == g \in active_games /\ t \in {games[g].player1_id, games[g].player2_id}
              k == IF t = games[g].player1_id THEN "player1" ELSE "player2" IN
          /\ ret'.ok <=> /\ known
                         /\ move \in {"rock", "paper", "scissors"}
                         /\ k \notin DOMAIN games[g].state.moves
          /\ ret'.ok => /\ k \in DOMAIN games'[g].state.moves
                        /\ games'[g].state.moves[k] = move
    /\ \A g \in DOMAIN games : \A k \in Slots :
          (/\ k \in DOMAIN games[g].state.moves
           /\ k \in DOMAIN games'[g].state.moves) =>
              games'[g].state.moves[k] = games[g].state.moves[k]

\* what C7 says of every state: only rock, paper and scissors are recorded
C7_Recorded ==
    \A g \in DOMAIN games : \A k \in DOMAIN games[g].state.moves :
        games[g].state.moves[k] \in {"rock", "paper", "scissors"}

\* C7: a move is accepted only if it is rock, paper or scissors and the
\* sender's slot has not moved in the round; the recorded move of a slot is
\* the first valid one and a later move does not overwrite it
C7_FirstValidMoveStays == []C7_Recorded /\ [][C7_Steps]_vars

\* C7 witness: player 1, whose slot holds rock, has just sent paper, which
\* was not applied
C7_Witness ==
    /\ ret.op = "make_move" /\ ret.task = 1 /\ ret.input = "paper" /\ ~ret.ok
    /\ ret.arg \in active_games
    /\ games[ret.arg].player2_id = 2
    /\ "player1" \in DOMAIN games[ret.arg].state.moves
    /\ games[ret.arg].state.moves["player1"] = "rock"

C9_AtMostOneJoiner ==
    [][(ret'.op = "join_lobby" /\ ret'.ok /\ ret'.arg \in DOMAIN active_lobbies) =>
          /\ active_lobbies[ret'.arg].joiner_id = 0
          /\ lobby_rows[ret'.arg].joiner_id = 0
      ]_vars

\* C10 as stated: a join_lobby that returns for a lobby of the mirror whose
\* row holds a password hash fails with 'Password required' when it was
\* given no password and with 'Invalid password' when it was given one that
\* does not match
C10_AsStated ==
    [][(/\ ret'.op = "join_lobby"
        /\ ret'.arg \in DOMAIN active_lobbies
        /\ ret'.arg \in DOMAIN lobby_rows
        /\ lobby_rows[ret'.arg].password_hash # <<>>) =>
          /\ ret'.input \in {"None", ""} =>
                (~ret'.ok /\ ret'.msg = "Password required")
          /\ (/\ ret'.input \notin {"None", ""}
              /\ lobby_rows[ret'.arg].password_hash # <<"bcrypt", ret'.input>>) =>
                (~ret'.ok /\ ret'.msg = "Invalid password")
      ]_vars

\* C10, amended: a join_lobby for an id that is not in the mirror returns
\* 'Lobby not found' at once, and a call goes on to read the row only for a
\* lobby of the mirror whose joiner slot is empty; the call that then reads a
\* row holding a password hash returns 'Password required' when it was given
\* no password and 'Invalid password' when it was given one that does not
\* match, and only a call given the matching password goes on to the commit;
\* a join_lobby that returns one of these three messages changes neither the
\* mirror nor the rows
C10_JoinFailures ==
    [][/\ \A t \in Users : \A id \in LobbyIds :
            (/\ pc[t] = "idle" /\ ret'.op = "join_lobby" /\ ret'.task = t
             /\ ret'.arg = id /\ id \notin DOMAIN active_lobbies) =>
                (~ret'.ok /\ ret'.msg = "Lobby not found")
       /\ \A t \in Users :
            (pc[t] = "idle" /\ pc'[t] = "join_get") =>
                /\ loc'[t].lobby_id \in DOMAIN active_lobbies
                /\ active_lobbies[loc'[t].lobby_id].joiner_id = 0
       /\ \A t \in Users :
            (/\ pc[t] = "join_get" /\ pc'[t] # "join_get"
             /\ loc[t].lobby_id \in DOMAIN lobby_rows
             /\ lobby_rows[loc[t].lobby_id].password_hash # <<>>) =>
                LET id == loc[t].lobby_id
                    given == loc[t].password IN
                IF given \in {"None", ""}
                THEN ret' = Ret(t, "join_lobby", id, given, FALSE, "Password required")
                ELSE IF lobby_rows[id].password_hash # <<"bcrypt", given>>
                THEN ret' = Ret(t, "join_lobby", id, given, FALSE, "Invalid password")
                ELSE pc'[t] = "join_commit" /\ ret' = NoRet
       /\ (/\ ret'.op = "join_lobby"
           /\ ret'.msg \in {"Password required", "Invalid password", "Lobby not found"}) =>
                /\ ~ret'.ok
                /\ active_lobbies' = active_lobbies
                /\ lobby_rows' = lobby_rows
      ]_vars

\* C10 witness: player 3 has just been refused with 'Invalid password' at a
\* lobby that player 1 created with password "a" and that has no joiner
C10_Witness ==
    /\ ret = Ret(3, "join_lobby", 1, "b", FALSE, "Invalid password")
    /\ 1 \in DOMAIN active_lobbies
    /\ active_lobbies[1].creator_id = 1
    /\ active_lobbies[1].joiner_id = 0 /\ active_lobbies[1].status = "waiting"
    /\ lobby_rows[1].password_hash = <<"bcrypt", "a">>
    /\ lobby_rows[1].joiner_id = 0 /\ lobby_rows[1].status = "waiting"

\* C12: a kick_from_lobby that does not go on to the database returns
\* failure at once and changes neither the mirror nor the rows, and it does
\* so exactly when the lobby is unknown, the kicker is not its creator or the
\* target is not its joiner; otherwise the call frees the joiner slot of the
\* mirror entry, clears its ready flag and sets its status to 'waiting'
\* before it reads the row; a kick_from_lobby reports success only after
\* that, and its commit writes an empty joiner slot and status 'waiting' to
\* the row it read with a joiner or another status
C12_KickOnlyByCreator ==
    [][/\ \A t \in Users :
            (ret'.op = "kick_from_lobby" /\ ret'.task = t /\ pc[t] = "idle") =>
                /\ ~ret'.ok
                /\ \/ ret'.arg \notin DOMAIN active_lobbies
                   \/ active_lobbies[ret'.arg].creator_id # t
                   \/ ToString(active_lobbies[ret'.arg].joiner_id) # ret'.input
                /\ active_lobbies' = active_lobbies
                /\ lobby_rows' = lobby_rows
       /\ \A t \in Users :
            (pc[t] = "idle" /\ pc'[t] = "kick_get") =>
                LET id == loc'[t].lobby_id IN
                /\ id \in DOMAIN active_lobbies
                /\ active_lobbies[id].creator_id = t
                /\ active_lobbies[id].joiner_id = loc'[t].target_id
                /\ active_lobbies' =
                     [active_lobbies EXCEPT ![id] =
                         [active_lobbies[id] EXCEPT !.joiner_id = 0, !.joiner_ready = FALSE,
                                                    !.status = "waiting"]]
                /\ lobby_rows' = lobby_rows
       /\ (ret'.op = "kick_from_lobby" /\ ret'.ok) =>
            LET t == ret'.task
                id == ret'.arg IN
            /\ pc[t] \in {"kick_get", "kick_commit"}
            /\ active_lobbies' = active_lobbies
            /\ IF pc[t] = "kick_commit" /\ loc[t].dirty
               THEN /\ id \in DOMAIN lobby_rows
                    /\ lobby_rows' = [lobby_rows EXCEPT ![id].joiner_id = 0,
                                                        ![id].status = "waiting"]
               ELSE lobby_rows' = lobby_rows
       /\ \A t \in Users :
            (pc[t] = "kick_get" /\ pc'[t] = "kick_commit") =>
                (loc'[t].dirty <=> \/ lobby_rows[loc[t].lobby_id].joiner_id # 0
                                   \/ lobby_rows[loc[t].lobby_id].status # "waiting")
      ]_vars

\* C12 witness: player 1 has just kicked player 2 from lobby 1, whose joiner
\* slot is empty and whose status is 'waiting' in the mirror and in the row
C12_Witness ==
    /\ ret = Ret(1, "kick_from_lobby", 1, "2", TRUE, "none")
    /\ 1 \in DOMAIN active_lobbies /\ 1 \in DOMAIN lobby_rows
    /\ active_lobbies[1].joiner_id = 0 /\ active_lobbies[1].status = "waiting"
    /\ lobby_rows[1].joiner_id = 0 /\ lobby_rows[1].status = "waiting"
    /\ \A t \in Users : pc[t] = "idle"


\* the sessions of the registry created more than 30 minutes ago
OldSessions == {g \in active_games : now - games[g].created_at > 30}

C15_MirrorAgreesWithRow ==
    (\A t \in Tasks : pc[t] = "idle") =>
        \A id \in DOMAIN active_lobbies :
            /\ id \in DOMAIN lobby_rows
            /\ lobby_rows[id].creator_id = active_lobbies[id].creator_id
            /\ lobby_rows[id].joiner_id = active_lobbies[id].joiner_id
            /\ lobby_rows[id].status = active_lobbies[id].status

\* ------------------------------------------------------------ claims about coins
\* the ledger entries of an account, oldest first
EntriesOf(u) == SelectSeq(coin_transactions, LAMBDA e : e.user_id = u)

\* C16: every ledger entry has balance_after = balance_before + amount, the
\* amount of a deduction being negative, and the stored balance of an
\* account that has entries equals the balance_after of its latest entry
C16_LedgerInvariant ==
    /\ \A i \in 1..Len(coin_transactions) :
          LET e == coin_transactions[i] IN
          /\ e.balance_after = e.balance_before + e.amount
          /\ (e.transaction_type = "game_stake") => e.amount < 0
    /\ \A u \in DOMAIN balance_coins :
          LET es == EntriesOf(u) IN
          es # <<>> => balance_coins[u] = es[Len(es)].balance_after

\* C16 witness: account 1 has a credit followed by a debit in its ledger,
\* and the call that returned last was a deduction that failed
C16_Witness ==
    /\ Len(coin_transactions) = 2
    /\ coin_transactions[1].amount = 250
    /\ coin_transactions[2].amount = 0 - 100
    /\ balance_coins[1] = 150
    /\ ret = Ret(1, "deduct_coins", 1, "250", FALSE, "none")
    /\ \A t \in CoinTasks : pc[t] = "idle"

\* C17: a deduct_coins whose amount exceeds the balance it reads does not
\* reach its UPDATE; a deduct_coins that returns at once returns False
\* and leaves the balance and the ledger as they were; and no stored
\* balance is ever negative
C17_DeductNeverOverdraws ==
    /\ [](\A u \in DOMAIN balance_coins : balance_coins[u] >= 0)
    /\ [][\A t \in CoinTasks :
            /\ (pc[t] = "idle" /\ pc'[t] = "coin_update"
                    /\ db'[t].op = "deduct_coins") =>
                  /\ db'[t].user_id \in DOMAIN balance_coins
                  /\ db'[t].amount <= balance_coins[db'[t].user_id]
            /\ (pc[t] = "idle" /\ pc'[t] = "idle" /\ ret' # ret /\ ret'.task = t
                    /\ ret'.op = "deduct_coins") =>
                  /\ ~ret'.ok
                  /\ UNCHANGED <<balance_coins, coin_transactions>>]_vars

\* C17 witness: account 1 holds 1.00 after one credit, and a deduction of
\* 2.50 has just returned False
C17_Witness ==
    /\ ret = Ret(2, "deduct_coins", 1, "250", FALSE, "none")
    /\ balance_coins[1] = 100
    /\ Len(coin_transactions) = 1
    /\ \A t \in CoinTasks : pc[t] = "idle"

\* C18: a DailyReward has streak 1 when the account has no reward dated the
\* day before it, and min(that reward's streak + 1, 7) when it has; its
\* coins are 100.00 + 50.00 * (streak - 1); the day after a streak of 4 the
\* streak is 5 and the coins are 300.00; no streak exceeds 7 and no reward
\* 400.00; a successful claim returns the same arithmetic
C18_StreakArithmetic ==
    /\ \A r \in daily_rewards :
          LET yesterday == {q \in daily_rewards :
                                /\ q.user_id = r.user_id
                                /\ q.reward_date = r.reward_date - 1}
          IN  /\ yesterday = {} => r.streak_days = 1
              /\ \A q \in yesterday :
                    /\ r.streak_days =
                          IF q.streak_days + 1 < 7 THEN q.streak_days + 1 ELSE 7
                    /\ q.streak_days = 4 =>
                          (r.streak_days = 5 /\ r.coins_earned = 30000)
              /\ r.coins_earned = 10000 + 5000 * (r.streak_days - 1)
              /\ r.streak_days <= 7
              /\ r.coins_earned <= 40000
    /\ claim_result.success =>
          /\ claim_result.streak_days \in 1..7
          /\ claim_result.coins_earned = 10000 + 5000 * (claim_result.streak_days - 1)

\* C18 witness: account 1 has claimed on the days 0 to 7; the fifth claim
\* has streak 5 and 300.00, the seventh and the eighth streak 7 and 400.00
C18_Witness ==
    /\ \A d \in 0..7 : \E r \in daily_rewards : r.user_id = 1 /\ r.reward_date = d
    /\ [user_id |-> 1, reward_date |-> 4, coins_earned |-> 30000,
        streak_days |-> 5] \in daily_rewards
    /\ [user_id |-> 1, reward_date |-> 6, coins_earned |-> 40000,
        streak_days |-> 7] \in daily_rewards
    /\ [user_id |-> 1, reward_date |-> 7, coins_earned |-> 40000,
        streak_days |-> 7] \in daily_rewards
    /\ claim_result = [task |-> 1, user_id |-> 1, success |-> TRUE,
                       coins_earned |-> 40000, streak_days |-> 7,
                       message |-> "Claimed"]

\* the daily_bonus credits of an account made on a day
BonusCredits(u, d) ==
    {i \in 1..Len(coin_transactions) :
        /\ coin_transactions[i].user_id = u
        /\ coin_transactions[i].transaction_type = "daily_bonus"
        /\ coin_transactions[i].created_at = d}

\* C19: a claim made when the account already has a reward of today does
\* not get past its check: it returns a failure, 'Already claimed today'
\* unless the check itself raised, and changes neither balance, ledger nor
\* rewards; and an account has at most one DailyReward and at most one
\* daily_bonus credit per day, also when two claims interleave
C19_OneClaimPerDay ==
    /\ [](\A u \in Users, d \in Days :
            /\ Cardinality({r \in daily_rewards :
                                r.user_id = u /\ r.reward_date = d}) <= 1
            /\ Cardinality(BonusCredits(u, d)) <= 1)
    /\ [][\A t \in CoinTasks :
            /\ (pc[t] = "idle" /\ pc'[t] = "claim_last") =>
                  ~\E r \in daily_rewards :
                        r.user_id = db'[t].user_id /\ r.reward_date = today
            /\ (pc[t] = "idle" /\ pc'[t] = "idle" /\ claim_result' # claim_result
                    /\ claim_result'.task = t) =>
                  /\ ~claim_result'.success
                  /\ claim_result'.coins_earned = 0
                  /\ claim_result'.message \in
                        {"Already claimed today", "Error claiming reward"}
                  /\ claim_result'.message = "Already claimed today" =>
                        \E r \in daily_rewards :
                            /\ r.user_id = claim_result'.user_id
                            /\ r.reward_date = today
                  /\ UNCHANGED <<balance_coins, coin_transactions, daily_rewards>>]_vars

\* C19 witness: account 1 has its reward of day 0 and the one credit that
\* goes with it, and a second claim on day 0 has just been turned down
C19_Witness ==
    /\ today = 0
    /\ daily_rewards = {[user_id |-> 1, reward_date |-> 0,
                         coins_earned |-> 10000, streak_days |-> 1]}
    /\ Len(coin_transactions) = 1
    /\ balance_coins[1] = 10000
    /\ claim_result = [task |-> 2, user_id |-> 1, success |-> FALSE,
                       coins_earned |-> 0, streak_days |-> 0,
                       message |-> "Already claimed today"]
    /\ \A t \in CoinTasks : pc[t] = "idle"

\* C20: when the claim that returned last reported success, the account has
\* the DailyReward it reported and a daily_bonus credit of the coins earned
C20_SuccessMeansCommitted ==
    claim_result.success =>
        /\ \E r \in daily_rewards :
              /\ r.user_id = claim_result.user_id
              /\ r.streak_days = claim_result.streak_days
              /\ r.coins_earned = claim_result.coins_earned
        /\ \E i \in 1..Len(coin_transactions) :
              /\ coin_transactions[i].user_id = claim_result.user_id
              /\ coin_transactions[i].transaction_type = "daily_bonus"
              /\ coin_transactions[i].amount = claim_result.coins_earned

\* ------------------------------------------------------------ claims about login
\* the payload carries a hash and it is the hash of its other fields
ValidHash(init_data) ==
    /\ \E i \in DOMAIN init_data : init_data[i][1] = "hash"
    /\ LastValue(init_data, "hash") = TelegramHash(init_data)

\* the auth_date of a payload that has one, in minutes
AuthDateOf(init_data) ==
    IF ParseInitData(init_data)["auth_date"] = "0" THEN 0 ELSE 0 - 1

\* C21: a login answers with a session token only to a payload whose hash
\* field is the HMAC of its data-check string under the bot token, and only
\* the login of such a payload inserts or updates a row of the users table
C21_OnlySignedPayloads ==
    /\ [](login_out.status = 200 => ValidHash(login_out.init_data))
    /\ [][tg_users' # tg_users => ValidHash(db[1].init_data)]_vars

\* C22: no login answers with a session token to a payload whose auth_date
\* lies more than 86,400 seconds (1440 minutes) back
C22_StalePayloadRejected ==
    [][(/\ login_out' # login_out
        /\ login_out'.status = 200
        /\ "auth_date" \in DOMAIN ParseInitData(login_out'.init_data)) =>
            now - AuthDateOf(login_out'.init_data) <= 1440]_vars

\* ------------------------------------------------------------ claims about the websocket endpoint
\* a token that is missing, signed with another key, expired, or without sub
InvalidToken(token) ==
    \/ token = NoToken
    \/ token.key # SECRET_KEY
    \/ token.exp <= now
    \/ token.sub = 0

Registered(s) == \E u \in active_connections : conn_ws[u] = s

\* C23: a websocket opened with no token or an invalid one is closed with
\* code 1008 once the endpoint has run, is never in the registry of
\* connections, never has a message routed and is never sent an event
C23_InvalidTokenClosed ==
    \A s \in Sockets :
        (sockets[s].state # "none" /\ InvalidToken(sockets[s].token)) =>
            /\ sockets[s].state \in {"connecting", "closed"}
            /\ sockets[s].state = "closed" =>
                   sockets[s].code = WS_1008_POLICY_VIOLATION
            /\ ~Registered(s)
            /\ ~sockets[s].dispatched
            /\ \A i \in DOMAIN ws_sent : ws_sent[i].ws # s

\* C23 witness: a websocket with an expired token has been closed while the
\* other websocket is registered and has had a message routed
C23_Witness ==
    \E s, o \in Sockets :
        /\ sockets[s].token.key = SECRET_KEY /\ sockets[s].token.exp <= now
        /\ sockets[s].token.sub # 0
        /\ sockets[s].state = "closed"
        /\ Registered(o) /\ sockets[o].dispatched

\* C24: a message that is answered with an error event (text that is not
\* JSON, an unknown action, a handler that raises) leaves the websocket in its
\* loop and the registry as it was, sends the event on that websocket only and
\* changes nothing of any other websocket or of the manager
C24_ErrorKeepsConnection ==
    [][\A s \in Sockets, m \in Messages :
          (Receive(s, m) /\ Answer(sockets[s].endpoint, m).type = "error") =>
              /\ sockets'[s].state = "open"
              /\ active_connections' = active_connections /\ conn_ws' = conn_ws
              /\ ws_sent' = <<[ws |-> s, type |-> "error"]>>
              /\ \A o \in Sockets \ {s} : sockets'[o] = sockets[o]
              /\ UNCHANGED <<active_lobbies, wait_queue, active_games, sent>>]_vars

\* C24 witness: a registered websocket that was answered with an error event
\* has had a later message routed, next to another registered websocket
C24_Witness ==
    \E s, o \in Sockets :
        /\ s # o
        /\ sockets[s].after_error /\ sockets[s].state = "open" /\ Registered(s)
        /\ sockets[o].state = "open" /\ Registered(o)

\* C25: when an authenticated websocket ends, its player is no longer in the
\* registry of connections and no lobby created by that player is left in
\* active_lobbies
C25_EndCleansUp ==
    [][\A s \in Sockets, raised \in SendRaises :
          ConnectionEnds(s, raised) =>
              /\ sockets[s].user_id \notin active_connections'
              /\ \A lid \in DOMAIN active_lobbies' :
                     active_lobbies'[lid].creator_id # sockets[s].user_id]_vars

\* ------------------------------------------------------------ claims about sends, pairing order and settlement
OtherPlayer(game, user_id) ==
    IF user_id = game.player1_id THEN game.player2_id ELSE game.player1_id

\* C26: a send that raises removes its player from the registry of
\* connections and stops nothing: the broadcast it belongs to (game_found,
\* round_result, game_result) still hands the event to the other player when
\* that player is registered, and the caller goes on: the session is
\* registered with its row, the mover goes on to the round's end, the
\* settled session is removed
C26_FailedSendIsContained ==
    [][\A i \in DOMAIN sent' :
          sent'[i].raised =>
            /\ sent'[i].to \notin active_connections'
            /\ sent'[i].type \in {"game_found", "round_result", "game_result"} =>
                 \A g \in GameIds :
                   LET other == OtherPlayer(games'[g], sent'[i].to) IN
                   /\ (other # sent'[i].to /\ other \in active_connections) =>
                         \E j \in DOMAIN sent' :
                            /\ sent'[j].to = other
                            /\ sent'[j].type = sent'[i].type
                            /\ ~sent'[j].raised
                   /\ sent'[i].type = "game_found" =>
                         g \in active_games' /\ g \in DOMAIN game_rows'
                   /\ sent'[i].type = "round_result" =>
                         /\ pc'[ret'.task] = "round_sent"
                         /\ games'[g].state.rounds_played = games[g].state.rounds_played
                         /\ games'[g].state.moves # games[g].state.moves
                   /\ sent'[i].type = "game_result" =>
                         /\ g \notin active_games'
                         /\ game_rows'[g].result # "none"
      ]_vars

\* C26 witness: the game_result to player 1 has raised, player 2 has got it,
\* player 1 is out of the registry and the settled session is removed
C26_Witness ==
    /\ sent = <<[to |-> 1, type |-> "game_result", raised |-> TRUE],
                [to |-> 2, type |-> "game_result", raised |-> FALSE]>>
    /\ 1 \notin active_connections
    /\ active_games = {}

\* C27: pairing keeps the wait queue in arrival order: as long as no session
\* creation has failed (a failure puts the two requests back as new ones),
\* the requests in the queue stand in the order in which they were made
C27_QueueKeepsArrivalOrder ==
    ~create_failed =>
        \A i, j \in DOMAIN wait_queue :
            i < j => wait_queue[i].rid < wait_queue[j].rid

\* C28: when _create_game fails (its commit raises, or the game type has no
\* engine), no session is registered or persisted, no event is sent, each of
\* the two requests is in the wait queue once, with its game type and stake,
\* and every request made so far is still in exactly one place
C28_FailedCreateRequeues ==
    [][\A t \in Users :
          (\/ CreateGameCommit(t) /\ game_rows' = game_rows
           \/ (AddToQueue(t) \/ AfterCreate(t)) /\ pc'[t] = "after_create") =>
              /\ active_games' = active_games /\ games' = games
              /\ game_rows' = game_rows
              /\ sent' = <<>>
              /\ \A p \in {loc'[t].p1, loc'[t].p2} :
                    Cardinality({i \in DOMAIN wait_queue' : wait_queue'[i] = p}) = 1
              /\ \A rid \in 1..(nextRid' - 1) :
                    (InQueue(rid) + InHold(rid) + InSessions(rid))' = 1
      ]_vars

\* C28 witness: a commit of _create_game has just failed for requests 1 and
\* 2 of players 1 and 2, which are both queued again, and no session exists
C28_Witness ==
    \E t \in Users :
        /\ pc[t] = "after_create" /\ create_failed
        /\ loc[t].p1.game_type = "rps"
        /\ loc[t].p1.user_id # loc[t].p2.user_id
        /\ \E i, j \in DOMAIN wait_queue :
              wait_queue[i] = loc[t].p1 /\ wait_queue[j] = loc[t].p2
        /\ active_games = {} /\ DOMAIN game_rows = {}

\* C29: a settlement without a winner that commits (the sweep's, of a
\* session that is too old) adds one to total_games_played of each of the
\* two players and to no one else's, leaves every player's wins, losses and
\* winnings and every coin balance as they were, and writes result 'draw'
\* and no winner to the session's row
C29_DrawSettlement ==
    [][\A t \in Tasks :
          (EndGameCommit(t) /\ loc[t].winner_id = 0 /\ game_rows' # game_rows) =>
              LET g == loc[t].game_id
                  players == {games[g].player1_id, games[g].player2_id} IN
              /\ \A u \in Users :
                    /\ user_rows'[u].total_games_played =
                          user_rows[u].total_games_played + (IF u \in players THEN 1 ELSE 0)
                    /\ user_rows'[u].total_wins = user_rows[u].total_wins
                    /\ user_rows'[u].total_losses = user_rows[u].total_losses
                    /\ user_rows'[u].total_won_ton = user_rows[u].total_won_ton
              /\ balance_coins' = balance_coins
              /\ game_rows'[g].result = "draw"
              /\ game_rows'[g].winner_id = 0
      ]_vars

\* C29 witness: the sweep has just committed the settlement of session 1,
\* which has a move of one player only, as a draw
C29_Witness ==
    /\ pc[SweepTask] = "end_notify" /\ loc[SweepTask].game_id = 1
    /\ loc[SweepTask].winner_id = 0
    /\ game_rows[1].result = "draw" /\ game_rows[1].writes = 1
    /\ DOMAIN games[1].state.moves # {}
    /\ user_rows[1].total_games_played = 1 /\ user_rows[2].total_games_played = 1

\* the round_result events of a log that were handed to a player's websocket
RoundResultsTo(log, user_id) ==
    Cardinality({i \in DOMAIN log : log[i].to = user_id /\ log[i].type = "round_result"})

\* the step in which the move of t completes a round of session g: the
\* handler has sent the round_result events
CompletesRound(t, g) ==
    pc[t] = "idle" /\ pc'[t] = "round_sent" /\ loc'[t].game_id = g

\* the step in which the handler of t goes on after the events
GoesOn(t) == pc[t] = "round_sent" /\ pc'[t] # "round_sent"

\* what C30 says beside the number of events: the events are built from a
\* state that holds both moves, the round's winner and the score with that
\* round counted; and when the session is not over the handler then clears
\* the moves, counts the round and leaves the session registered with its
\* players and score
RoundFrame ==
    /\ \A t \in Users, g \in GameIds :
          CompletesRound(t, g) =>
              /\ \A i \in DOMAIN sent' :
                    /\ sent'[i].type = "round_result"
                    /\ sent'[i].to \in {games[g].player1_id, games[g].player2_id}
              /\ DOMAIN games'[g].state.moves = Slots
              /\ loc'[t].round_winner = check_round_end(games'[g].state)
              /\ games'[g].state.score =
                    UpdateScore(games[g].state, loc'[t].round_winner).score
    /\ \A t \in Users :
          (GoesOn(t) /\ ~is_game_over(games[loc[t].game_id].state)) =>
              LET g == loc[t].game_id IN
              /\ games'[g].state.moves = EmptyMoves
              /\ games'[g].state.rounds_played = games[g].state.rounds_played + 1
              /\ games'[g].state.score = games[g].state.score
              /\ games'[g].player1_id = games[g].player1_id
              /\ games'[g].player2_id = games[g].player2_id
              /\ g \in active_games' /\ active_games' = active_games

C31_OneAccountPerIdentity ==
    /\ [](/\ DOMAIN user_rows = {tg_users[tid].id : tid \in DOMAIN tg_users}
          /\ Cardinality(DOMAIN user_rows) = Cardinality(DOMAIN tg_users)
          /\ DOMAIN balance_coins = DOMAIN user_rows
          /\ \A tid \in DOMAIN tg_users :
                tg_users[tid].referral_link = <<"ref_", tid>>)
    /\ [][\A t \in CoinTasks :
            (pc[t] = "login_commit" /\ pc'[t] # "login_commit") =>
               LET tid == db[t].telegram_id IN
               IF pc'[t] = "idle"
               THEN tg_users' = tg_users /\ user_rows' = user_rows
                    /\ balance_coins' = balance_coins
               ELSE tid \in DOMAIN tg_users =>
                    /\ tg_users'[tid].id = tg_users[tid].id
                    /\ tg_users'[tid].username # tg_users[tid].username =>
                          /\ db[t].username \notin {"None", ""}
                          /\ tg_users'[tid].username = db[t].username
                    /\ (db[t].username \notin {"None", ""}) =>
                          tg_users'[tid].username = db[t].username
                    /\ user_rows' = user_rows /\ balance_coins' = balance_coins
                    /\ \A o \in DOMAIN tg_users \ {tid} : tg_users'[o] = tg_users[o]
         ]_vars

\* C31 witness: of two interleaved first logins of telegram_id 104 one has
\* inserted account 4 and the other has failed at its commit, and account
\* 101 has been given a new username
C31_Witness ==
    /\ 104 \in DOMAIN tg_users /\ tg_users[104].id = 4
    /\ tg_users[101].username = "new"
    /\ login_out.status = 500 /\ login_out.init_data = MakeInit("0", "u104", "absent")
    /\ \E t \in CoinTasks : pc[t] = "login_refresh" /\ db[t].telegram_id = 104

\* C32: every pairing run returns: a task that is inside add_to_queue (in
\* _attempt_matchmaking or in its _create_game) is idle again later
C32_PairingReturns ==
    \A t \in Users : (pc[t] # "idle") ~> (pc[t] = "idle")

\* C33: the two players of every session, in the table and in the registry,
\* are different players
C33_PlayersDistinct ==
    /\ \A g \in DOMAIN game_rows : game_rows[g].player1_id # game_rows[g].player2_id
    /\ \A g \in active_games : games[g].player1_id # games[g].player2_id

\* C34: when a player's leave_queue has been answered with queue_left, the
\* wait queue holds no request of that player
C34_LeftPlayerNotQueued ==
    [][\A t \in Users :
          (/\ ret'.op = "leave_queue" /\ ret'.task = t
           /\ \E i \in DOMAIN sent' : sent'[i].to = t /\ sent'[i].type = "queue_left") =>
              \A i \in DOMAIN wait_queue' : wait_queue'[i].user_id # t
      ]_vars

\* C35: when a player has connected again, so that the registry holds the
\* newer websocket, and the older websocket then ends, the registry still
\* holds the newer websocket for that player
C35_NewerConnectionStays ==
    [][\A s, o \in Sockets :
          LET u == sockets[s].user_id IN
          (/\ s # o
           /\ sockets[s].state = "open" /\ sockets'[s].state = "closed"
           /\ sockets[o].state = "open" /\ sockets[o].user_id = u
           /\ u \in active_connections /\ conn_ws[u] = o) =>
              (u \in active_connections' /\ conn_ws'[u] = o)
      ]_vars

\* the payloads of the bonus specification: signed ones of an old and of a
\* new account
BonusInits == {Signed("0", "u101"), Signed("0", "u104")}

\* logins through authenticate_user, two at a time, and debits that spend
\* a whole welcome bonus
NextBonus ==
    \/ \E t \in CoinTasks, i \in BonusInits :
          Len(coin_transactions) < MaxEntries /\ LoginBegin(t, "authenticate_user", i)
    \/ \E t \in CoinTasks : LoginGet(t)
    \/ \E t \in CoinTasks : LoginCommit(t)
    \/ \E t \in CoinTasks : LoginRefresh(t)
    \/ \E t \in CoinTasks : ClaimSelect(t)
    \/ \E t \in CoinTasks : CoinUpdate(t)
    \/ \E t \in CoinTasks : CoinCommit(t)
    \/ \E t \in CoinTasks : AuthRefresh(t)
    \/ \E t \in CoinTasks, u \in {1, 4} : DeductBegin(t, u, INITIAL_BONUS)

SpecBonus == InitQueue /\ [][NextBonus]_vars

\* ------------------------------------------------------------ claims about concurrent coin calls
RECURSIVE SumAmounts(_)
SumAmounts(es) == IF es = <<>> THEN 0 ELSE Head(es).amount + SumAmounts(Tail(es))

\* C36: the stored balance of every account is the sum of the amounts of
\* its ledger entries, and each entry of an account starts from the
\* balance_after of the account's entry committed before it
C36_NoLostUpdate ==
    \A u \in DOMAIN balance_coins :
        LET es == EntriesOf(u) IN
        /\ balance_coins[u] = SumAmounts(es)
        /\ \A i \in 1..(Len(es) - 1) : es[i + 1].balance_before = es[i].balance_after

\* C37: no account has more than one initial_bonus ledger entry
C37_OneWelcomeBonus ==
    \A u \in DOMAIN balance_coins :
        Cardinality({i \in 1..Len(coin_transactions) :
                        /\ coin_transactions[i].user_id = u
                        /\ coin_transactions[i].transaction_type = "initial_bonus"}) <= 1

\* lobby 1 of player 1, without password: joining, leaving, kicking and the
\* ready flags
NextRejoin ==
    \/ CreateLobbyCommit(1, "None")
    \/ CreateLobbyRegister(1)
    \/ \E t \in Users : JoinBegin(t, 1, "None")
    \/ \E t \in Users : JoinGet(t)
    \/ \E t \in Users : JoinCommit(t)
    \/ \E t \in Users : LeaveBegin(t, 1)
    \/ \E t \in Users : LeaveCreatorGet(t)
    \/ \E t \in Users : LeaveCreatorCommit(t)
    \/ \E t \in Users : LeaveJoinerGet(t)
    \/ \E t \in Users : LeaveJoinerCommit(t)
    \/ \E t \in Users : LeaveNotify(t)
    \/ \E t \in Users, id \in LobbyIds, target \in Users : KickBegin(t, id, target)
    \/ \E t \in Users : KickGet(t)
    \/ \E t \in Users : KickCommit(t)
    \/ \E t \in Users, id \in LobbyIds, r \in BOOLEAN : SetLobbyReady(t, id, r)
    \/ \E t \in Users : PromoteCommit(t)
    \/ \E t \in Users : PromoteGet(t)
    \/ \E t \in Users : PromoteDelete(t)
    \/ \E u \in Users : Connect(u)

SpecRejoin == InitLobby /\ [][NextRejoin]_vars

\* ------------------------------------------------------------ claims about the end of a round
\* the state in which the handler of t has sent the round_result of a round
\* of session g that did not end the game, player p got the event on an open
\* websocket, and the handler has not yet gone on
RoundResultSeen(t, p, g) ==
    /\ pc[t] = "round_sent" /\ loc[t].game_id = g
    /\ g \in active_games
    /\ ~is_game_over(games[g].state)
    /\ p \in {games[g].player1_id, games[g].player2_id}
    /\ p \in active_connections
    /\ \E i \in DOMAIN sent :
          sent[i].to = p /\ sent[i].type = "round_result" /\ ~sent[i].raised

\* the step in which handle_player_move takes a valid move of p for session g
ValidMoveBy(p, g) ==
    /\ pc[p] = "idle"
    /\ ret.task # p
    /\ ret'.task = p /\ ret'.op = "make_move" /\ ret'.arg = g
    /\ ret'.input \in VALID_MOVES

\* C38: a valid move that a player sends after the round_result of a round
\* that did not end the game is accepted as that player's move of the next
\* round, also when it arrives before the handler has reset the round
C38_MoveAfterRoundResult ==
    [][\A t \in Users, p \in Users, g \in GameIds :
          (RoundResultSeen(t, p, g) /\ ValidMoveBy(p, g)) =>
              /\ ret'.ok
              /\ games'[g].state.moves[PlayerKey(games[g], p)] = ret'.input
      ]_vars

\* ------------------------------------------------------------ daily-reward status
\* get_streak_info (coin_service.py lines 252-285): whether the account has
\* no reward of today, and the streak of its latest reward when that reward
\* is of today or of yesterday, else 0
can_claim_today(user_id, day) == ~ClaimedToday(user_id, day)

current_streak(user_id, day) ==
    LET last_reward == LastReward(user_id) IN
    IF last_reward = <<>> THEN 0
    ELSE IF last_reward[1].reward_date = day THEN last_reward[1].streak_days
    ELSE IF last_reward[1].reward_date = day - 1 THEN last_reward[1].streak_days
    ELSE 0

\* next_reward of get_daily_reward_status (routers/coins.py lines 96-97)
next_reward(streak) == DAILY_REWARD_BASE + DAILY_REWARD_STREAK_BONUS * streak

\* the answer of the endpoint: next_reward, current_streak, can_claim_today
StatusAnswer(t, user_id) ==
    Ret(t, "daily_reward_status", next_reward(current_streak(user_id, today)),
        ToString(current_streak(user_id, today)), can_claim_today(user_id, today),
        "none")

\* GET /api/coins/daily-reward/status (routers/coins.py lines 82-102): the
\* answer, or get_streak_info's except branch (coin_service.py lines
\* 287-289), which answers streak 0 and can_claim_today False
DailyRewardStatus(t, user_id) ==
    /\ pc[t] = "idle"
    /\ \/ ret' = StatusAnswer(t, user_id)
       \/ ret' = Ret(t, "daily_reward_status", next_reward(0), "0", FALSE, "raised")
    /\ UNCHANGED <<managerVars, edgeVars, pc, balance_coins, coin_transactions,
                   daily_rewards, today, db, claim_result>>

\* one request at a time of account 1: the status endpoint beside the
\* claims and the days
NextStatus ==
    \/ NextStreak
    \/ DailyRewardStatus(1, 1)

SpecStatus == InitQueue /\ [][NextStatus]_vars

\* ------------------------------------------------------------ claims about ready flags and rewards
\* C39: when the joiner of a lobby is kicked or leaves, both ready flags of
\* the lobby are false afterwards, so that a later joiner's ready signal
\* alone does not start the game
C39_ReadyClearedWithJoiner ==
    [][\A id \in LobbyIds :
          (/\ id \in DOMAIN active_lobbies /\ id \in DOMAIN active_lobbies'
           /\ active_lobbies[id].joiner_id # 0
           /\ active_lobbies'[id].joiner_id = 0) =>
              /\ ~active_lobbies'[id].creator_ready
              /\ ~active_lobbies'[id].joiner_ready
      ]_vars

\* C40: when a claim commits its reward on the day it began and the answer
\* last given by the status endpoint is the one the endpoint gives at that
\* moment, the coins of the reward are the next_reward of that answer
C40_NextRewardIsEarned ==
    [][\A t \in CoinTasks :
          (/\ pc[t] = "coin_commit" /\ db[t].op = "claim_daily_reward"
           /\ daily_rewards' # daily_rewards
           /\ db[t].today = today
           /\ ret = StatusAnswer(ret.task, db[t].user_id)) =>
              /\ claim_result'.coins_earned = ret.arg
              /\ \A r \in daily_rewards' \ daily_rewards : r.coins_earned = ret.arg
      ]_vars
====
